---- MODULE Spec2Model ----
(***************************************************************************)
(* Verification model of vulkan_video.                                     *)
(*                                                                         *)
(* The parts of the crate modelled, each with its own specification:       *)
(*   SpecNal     - the bitstream segmenter NalIter (src/src/video/utils.rs)*)
(*   SpecSub     - Queue::build_and_submit and the operations recorded     *)
(*                 into a command buffer (src/src/queue.rs, src/src/ops);  *)
(*                 SpecSubFair adds the scheduling of driver and device    *)
(*   Spec        - the ownership graph of the Arc-shared resources         *)
(*                 (device, allocation, buffer, image, shader objects)     *)
(*   SpecInsp    - H264StreamInspector and run_with_create_info            *)
(*   SpecScaling - scaling_list (src/src/video/h264/parameters.rs)         *)
(*   SpecRec     - one run_in call of an operation (src/src/ops)           *)
(*   SpecCreate  - the constructors of buffer, pipeline and video session  *)
(*                 with their error paths                                  *)
(*   SpecUpload  - Buffer::upload and download_into on one allocation      *)
(* The variables of the parts a specification does not use keep their      *)
(* initial values.                                                         *)
(***************************************************************************)
EXTENDS Integers, Sequences, FiniteSets, TLC

VARIABLES
    \* ---- NalIter (video/utils.rs) ----
    stream,     \* NalIter.stream: the byte buffer
    iterPos,    \* NalIter.iter: number of bytes the enumerate iterator has consumed
    nalState,   \* NalIter.state: Next{start,end} | Last{start} | End
    units,      \* the slices next() has returned so far, as [start, end) offsets
    nalRet,     \* what the last call of next() returned: "NotCalled" | "Some" | "None"
    \* ---- Queue::build_and_submit (queue.rs) and the device queue ----
    pc,         \* the statement of build_and_submit the caller stands before; "idle" outside a call
    prog,       \* the closure f of the current call: the operations whose run_in it invokes, in order
    todo,       \* the part of the closure not yet executed
    cmdbuf,     \* the commands recorded in the native command buffer
    calls,      \* the driver calls and run_in calls the current call has issued, with their results
    result,     \* the value the last call of build_and_submit returned
    fence,      \* the fence of the current call: "none" | "created" | "pending" | "destroyed"
    fenceSignalled, \* whether the device has signalled that fence
    fencesAlive,    \* number of native fences created and not destroyed
    gpuCmds,    \* the commands submitted to the native queue, in submission order
    gpuDone,    \* the indices of the submitted commands the device has completed
    mem,        \* contents of the buffers the operations work on
    nCalls,     \* number of build_and_submit calls made
    queue,      \* the queue the current (or last) build_and_submit was called on
    gpuQueue,   \* per submitted command: the native queue it was submitted to
    lastCall,   \* the build_and_submit call before the current one: its queue, how it ended
    downloaded, \* what the download_into call made since the last submission returned
    \* ---- the Arc-shared resources (device.rs, allocation.rs, resources, shader) ----
    native,     \* per resource: its native object, "none" | "alive" | "destroyed"
    strong,     \* per resource: strong count of the Arc around its ...Shared value
    handle,     \* per resource or operation: the caller holds the handle (Device, Buffer, ...)
    fields,     \* per resource or operation: the Arcs its ...Shared value owns, in declaration order
    uses,       \* per resource: the resources its native object was created from or is bound to
    log,        \* the native destroy / free and bind_image_memory calls issued so far
    ret,        \* what the last call on a handle returned
    \* ---- H264StreamInspector (video/h264) and VideoSessionParameters ----
    h264_context,   \* the parameter context: SPS and PPS records by id
    lastParsed,     \* per id: the record of the last SPS / PPS NAL parsed without error
    feedRet,        \* the NAL of the last feed_nal call and how the call ended
    panicked,       \* a feed_nal call has panicked
    rwPc,           \* position inside run_with_create_info
    heap,           \* the records run_with_create_info has built and not yet dropped
    vsp,            \* the VideoSessionParameters object created, if any
    \* ---- scaling_list (video/h264/parameters.rs) ----
    scalingIn,      \* the two slices of parsed scaling lists scaling_list is called with
    scalingOut,     \* the StdVideoH264ScalingLists it returned
    \* ---- one run_in call of an operation (ops) ----
    recOp,          \* the operation run_in is called on
    recCmds,        \* the commands in the command buffer handed to run_in
    recBindings,    \* the descriptor set of the operation: binding -> resource written to it
    recRet,         \* what run_in returned
    \* ---- fallible constructors (resources/buffer.rs, shader/pipeline.rs, video/session.rs) ----
    natives,        \* the native objects the creation calls made, each alive or destroyed
    crCalls,        \* the creation calls made: constructor, result, whether the caller holds the value
    \* ---- Buffer::upload / download_into on one allocation (resources/buffer.rs) ----
    upMem,          \* the bytes of the allocation
    upCall,         \* the last upload or download_into call: buffer, data, result
    upLast,         \* per buffer: the data of the last upload called on it, and whether it returned Ok
    upTarget        \* the target slice after the last download_into

nalVars == <<stream, iterPos, nalState, units, nalRet>>
queueVars == <<queue, gpuQueue, lastCall>>
hostVars == <<downloaded>>
subVars == <<pc, prog, todo, cmdbuf, calls, result, fence, fenceSignalled,
             fencesAlive, gpuCmds, gpuDone, mem, nCalls, queueVars, hostVars>>
ownVars == <<native, strong, handle, fields, uses, log, ret>>
inspVars == <<h264_context, lastParsed, feedRet, panicked, rwPc, heap, vsp>>
scalingVars == <<scalingIn, scalingOut>>
recVars == <<recOp, recCmds, recBindings, recRet>>
createVars == <<natives, crCalls>>
uploadVars == <<upMem, upCall, upLast, upTarget>>
lifeVars == <<createVars, uploadVars>>
extVars == <<scalingVars, recVars, lifeVars>>
vars == <<nalVars, subVars, ownVars, inspVars, extVars>>

(***************************************************************************)
(* Bitstream segmenter                                                     *)
(***************************************************************************)

\* Longest byte buffer fed to the segmenter.
MaxLen == 9

\* Byte values: 0, 1 and 2 (2 stands for every byte that is neither 0 nor 1).
Bytes == {0, 1, 2}

Streams == UNION {[1..n -> Bytes] : n \in 0..MaxLen}

NAL_MIN_0_COUNT_One == 2 - 1

\* How many 0 have to be observed before a 1 means NAL.
NAL_MIN_0_COUNT == 2

StNext(s, e) == [tag |-> "Next", start |-> s, end |-> e]
StLast(s) == [tag |-> "Last", start |-> s, end |-> 0]
StEnd == [tag |-> "End", start |-> 0, end |-> 0]

RECURSIVE ScanFrom_NoBackup(_, _, _)
ScanFrom_NoBackup(s, pos, count0) ==
    IF pos >= Len(s)
    THEN [found |-> FALSE, offset |-> 0, pos |-> pos]
    ELSE LET byte == s[pos + 1] IN
         IF byte = 0 THEN ScanFrom_NoBackup(s, pos + 1, count0 + 1)
         ELSE IF byte = 1 /\ count0 >= 2
              THEN [found |-> TRUE, offset |-> pos, pos |-> pos + 1]
              ELSE ScanFrom_NoBackup(s, pos + 1, 0)

\* The loop of next_offset: the iterator stands before offset pos, count0 zero
\* bytes have been seen in a row.  Offsets are 0-based as in the source; the
\* byte at offset k is s[k + 1].
RECURSIVE ScanFrom(_, _, _)
ScanFrom(s, pos, count0) ==
    IF pos >= Len(s)
    THEN [found |-> FALSE, offset |-> 0, pos |-> pos]
    ELSE LET byte == s[pos + 1] IN
         IF byte = 0 THEN ScanFrom(s, pos + 1, count0 + 1)
         ELSE IF byte = 1 /\ count0 >= NAL_MIN_0_COUNT
              THEN [found |-> TRUE, offset |-> pos - NAL_MIN_0_COUNT, pos |-> pos + 1]
              ELSE ScanFrom(s, pos + 1, 0)

next_offset_Restart(s, pos) == ScanFrom(s, 0, 0)

\* next_offset(iter): count_0 starts at 0 on every call.
next_offset(s, pos) == ScanFrom(s, pos, 0)

\* NalIter::new
NalIterNew(s) ==
    LET first == next_offset(s, 0) IN
    IF first.found
    THEN LET second == next_offset(s, first.pos) IN
         IF second.found
         THEN [state |-> StNext(first.offset, second.offset), pos |-> second.pos]
         ELSE [state |-> StLast(first.offset), pos |-> second.pos]
    ELSE [state |-> StEnd, pos |-> first.pos]

\* A NalIter constructed over one of the buffers in S.
NalConstructed(S) ==
    /\ stream \in S
    /\ iterPos = NalIterNew(stream).pos
    /\ nalState = NalIterNew(stream).state
    /\ units = <<>>
    /\ nalRet = "NotCalled"

\* <NalIter as Iterator>::next
NalNext ==
    /\ nalRet \in {"NotCalled", "Some"}
    /\ CASE nalState.tag = "Next" ->
              LET n == next_offset(stream, iterPos) IN
              /\ nalState' = IF n.found THEN StNext(nalState.end, n.offset)
                                        ELSE StLast(nalState.end)
              /\ iterPos' = n.pos
              /\ units' = Append(units, [start |-> nalState.start, end |-> nalState.end])
              /\ nalRet' = "Some"
         [] nalState.tag = "Last" ->
              /\ nalState' = StEnd
              /\ units' = Append(units, [start |-> nalState.start, end |-> Len(stream)])
              /\ nalRet' = "Some"
              /\ UNCHANGED iterPos
         [] nalState.tag = "End" ->
              /\ nalRet' = "None"
              /\ UNCHANGED <<nalState, iterPos, units>>
    /\ UNCHANGED stream
    /\ UNCHANGED <<subVars, ownVars, inspVars, extVars>>

(***************************************************************************)
(* Command submission: QueueShared::build_and_submit, the operations       *)
(* recorded through AddToCommandBuffer::run_in, and the device executing   *)
(* the submitted commands                                                  *)
(***************************************************************************)

\* Most operations one closure invokes.
MaxOps == 2

\* Most build_and_submit calls in one behaviour.
MaxSubmits == 2

\* Number of bytes a download reads.
DownloadLen == 8

\* The two buffers the recorded operations work on.
OpBuffers == {"b1", "b2"}

\* Fill patterns (a buffer holds 0 before anything is written to it).
FillValues == {287454020}

SUCCESS == "SUCCESS"

\* Error codes a driver call can return.
VkErrors == {"ERROR_DEVICE_LOST", "ERROR_OUT_OF_HOST_MEMORY"}

\* Error values an operation's run_in can return.
OpErrors == {[tag |-> "Err", variant |-> "Vulkan", code |-> "ERROR_DEVICE_LOST"],
             [tag |-> "Err", variant |-> "NoComputePipeline", code |-> "-"]}

ResNone == [tag |-> "None", variant |-> "-", code |-> "-"]
ResPending == [tag |-> "Pending", variant |-> "-", code |-> "-"]
ResOk == [tag |-> "Ok", variant |-> "-", code |-> "-"]

FromVkResult_Unknown(e) == [tag |-> "Err", variant |-> "Vulkan", code |-> "ERROR_UNKNOWN"]

\* impl From<ash::vk::Result> for Error
FromVkResult(e) == [tag |-> "Err", variant |-> "Vulkan", code |-> e]

\* Operations a closure can invoke.
OpDummy == [op |-> "Dummy", a |-> "-", b |-> "-", v |-> 0, err |-> ResOk]
OpFill(buf, val) == [op |-> "Fill", a |-> buf, b |-> "-", v |-> val, err |-> ResOk]
OpCopy(from, to) == [op |-> "Copy", a |-> from, b |-> to, v |-> 0, err |-> ResOk]
\* an operation whose run_in returns an error before recording anything
OpFailing(e) == [op |-> "Failing", a |-> "-", b |-> "-", v |-> 0, err |-> e]

Ops ==
    {OpDummy}
    \cup {OpFill(x, val) : x \in OpBuffers, val \in FillValues}
    \cup {OpCopy(x, y) : <<x, y>> \in {p \in OpBuffers \X OpBuffers : p[1] # p[2]}}
    \cup {OpFailing(e) : e \in OpErrors}

Closures == UNION {[1..n -> Ops] : n \in 0..MaxOps}

\* Native commands.
CmdBarrier(buf, srcAccess, dstAccess) ==
    [cmd |-> "pipeline_barrier", a |-> buf, b |-> "-", v |-> 0,
     src |-> srcAccess, dst |-> dstAccess]
CmdFill(buf, val) ==
    [cmd |-> "fill_buffer", a |-> buf, b |-> "-", v |-> val, src |-> "-", dst |-> "-"]
CmdCopy(from, to) ==
    [cmd |-> "copy_buffer", a |-> from, b |-> to, v |-> 0, src |-> "-", dst |-> "-"]

\* FillBuffer::run_in: one buffer barrier, then the fill.
FillBufferRunIn(o) ==
    <<CmdBarrier(o.a, "TRANSFER_WRITE", "TRANSFER_READ"), CmdFill(o.a, o.v)>>

\* CopyBuffer2Buffer::run_in: the copy command alone.
CopyBuffer2BufferRunIn(o) == <<CmdCopy(o.a, o.b)>>

\* Dummy::run_in records nothing.
DummyRunIn(o) == <<>>

\* The images the decode and compute operations work on, each with one view.
OpImages == {"i1", "i2"}

\* DecodeH264::new(buffer, parameters, target_view, ref_view, decode_info)
OpDecode(buf, target, ref) ==
    [op |-> "Decode", a |-> buf, b |-> "-", v |-> 0, err |-> ResOk, target |-> target, ref |-> ref]

\* ShaderParameter::parameter_type of a Buffer and of an ImageView
ParamBuffer(buf) == [kind |-> "Buffer", res |-> buf]
ParamImageView(img) == [kind |-> "ImageView", res |-> img]
ParameterTypes == {ParamBuffer(x) : x \in OpBuffers} \cup {ParamImageView(x) : x \in OpImages}

\* The tuples ShaderParameterSet is implemented for: (), (&T0,), (&T0, &T1, &T2)
ParameterSets == UNION {[1..n -> ParameterTypes] : n \in {0, 1, 3}}

\* Compute::new(pipeline, params, dispatch_groups)
OpCompute(params) ==
    [op |-> "Compute", a |-> "-", b |-> "-", v |-> 0, err |-> ResOk, params |-> params]

\* vk::BufferMemoryBarrier2 and vk::ImageMemoryBarrier2
BufferBarrier(buf, srcAccess, dstAccess) ==
    [buffer |-> buf, src_access |-> srcAccess, dst_access |-> dstAccess]
ImageBarrier(img, srcAccess, dstAccess, oldLayout, newLayout) ==
    [image |-> img, src_access |-> srcAccess, dst_access |-> dstAccess,
     old_layout |-> oldLayout, new_layout |-> newLayout]

\* A pipeline barrier command with its buffer and image memory barriers.
CmdPipelineBarrier(buffers, images) ==
    [cmd |-> "pipeline_barrier", buffers |-> buffers, images |-> images]

\* A command with no barrier in it, on the resources it names.
CmdOther(name, res) == [cmd |-> name, buffers |-> <<>>, images |-> <<>>, res |-> res]

image_release_dst_FromUndefined(img) ==
    ImageBarrier(img, "VIDEO_DECODE_WRITE_KHR", "NONE", "UNDEFINED", "GENERAL")

\* The four barriers of DecodeH264::run_in.
image_barrier_dst(img) ==
    ImageBarrier(img, "NONE", "VIDEO_DECODE_WRITE_KHR", "UNDEFINED", "VIDEO_DECODE_DPB_KHR")
image_release_dst(img) ==
    ImageBarrier(img, "VIDEO_DECODE_WRITE_KHR", "NONE", "VIDEO_DECODE_DPB_KHR", "GENERAL")
buffer_barrier(buf) == BufferBarrier(buf, "HOST_WRITE", "VIDEO_DECODE_READ_KHR")
buffer_barrier_release(buf) == BufferBarrier(buf, "VIDEO_DECODE_READ_KHR", "NONE")

\* DecodeH264::run_in: the acquire barrier, begin / control / decode / end video
\* coding, the release barrier.  The barriers name the image of the target view.
DecodeH264RunIn(o) ==
    <<CmdPipelineBarrier(<<buffer_barrier(o.a)>>, <<image_barrier_dst(o.target)>>),
      CmdOther("begin_video_coding", {}),
      CmdOther("control_video_coding", {}),
      CmdOther("decode_video", {o.a, o.target}),
      CmdOther("end_video_coding", {}),
      CmdPipelineBarrier(<<buffer_barrier_release(o.a)>>, <<image_release_dst(o.target)>>)>>

\* The barriers the loop of Compute::run_in pushes for one parameter.
AcquireBuffer(q) ==
    IF q.kind = "Buffer" THEN <<BufferBarrier(q.res, "MEMORY_READ|MEMORY_WRITE", "MEMORY_READ|MEMORY_WRITE")>>
    ELSE <<>>
ReleaseBuffer(q) ==
    IF q.kind = "Buffer" THEN <<BufferBarrier(q.res, "MEMORY_READ|MEMORY_WRITE", "MEMORY_READ|MEMORY_WRITE")>>
    ELSE <<>>
AcquireImage(q) ==
    IF q.kind = "ImageView" THEN <<ImageBarrier(q.res, "NONE", "NONE", "UNDEFINED", "GENERAL")>>
    ELSE <<>>
\* release_image is created empty and nothing is pushed to it.
ReleaseImage(q) == <<>>

\* What the loop pushes to vector vec for parameter q.
Pushed(vec, q) ==
    CASE vec = "acquire_buffer" -> AcquireBuffer(q)
      [] vec = "release_buffer" -> ReleaseBuffer(q)
      [] vec = "acquire_image" -> AcquireImage(q)
      [] vec = "release_image" -> ReleaseImage(q)

RECURSIVE Collect(_, _, _)
\* Vector vec after the loop over params, from entry i on.
Collect(params, i, vec) ==
    IF i > Len(params) THEN <<>> ELSE Pushed(vec, params[i]) \o Collect(params, i + 1, vec)

\* Compute::run_in: bind pipeline, bind descriptor sets, the acquire barrier,
\* the dispatch, the release barrier.
ComputeRunIn(o) ==
    <<CmdOther("bind_pipeline", {}),
      CmdOther("bind_descriptor_sets", {}),
      CmdPipelineBarrier(Collect(o.params, 1, "acquire_buffer"),
                         Collect(o.params, 1, "acquire_image")),
      CmdOther("dispatch", {o.params[i].res : i \in DOMAIN o.params}),
      CmdPipelineBarrier(Collect(o.params, 1, "release_buffer"),
                         Collect(o.params, 1, "release_image"))>>

\* The update_descriptor_sets calls of Compute::run_in: parameter i (counted
\* from 0 by enumerate) is written with dst_binding(i).
DescriptorWrites(o) ==
    IF o.op = "Compute"
    THEN [i \in 0..(Len(o.params) - 1) |-> o.params[i + 1]]
    ELSE <<>>

\* The commands run_in of operation o appends to the command buffer.
RunIn(o) ==
    CASE o.op = "Fill" -> FillBufferRunIn(o)
      [] o.op = "Copy" -> CopyBuffer2BufferRunIn(o)
      [] o.op = "Decode" -> DecodeH264RunIn(o)
      [] o.op = "Compute" -> ComputeRunIn(o)
      [] OTHER -> DummyRunIn(o)

NoOp == [op |-> "-", a |-> "-", b |-> "-", v |-> 0, err |-> ResOk]

\* One entry of the call log.
Call(name, rc, o) == [call |-> name, rc |-> rc, op |-> o]

NextPc_SubmitBeforeEnd(p) ==
    CASE p = "create_fence" -> "reset"
      [] p = "reset" -> "begin"
      [] p = "begin" -> "callback"
      [] p = "callback" -> "submit"
      [] p = "submit" -> "end"
      [] p = "end" -> "wait_fence"
      [] p = "wait_fence" -> "destroy_fence"
      [] p = "destroy_fence" -> "wait_idle"
      [] p = "wait_idle" -> "idle"

\* The statement order of build_and_submit (queue.rs 67..79).
NextPc(p) ==
    CASE p = "create_fence" -> "reset"
      [] p = "reset" -> "begin"
      [] p = "begin" -> "callback"
      [] p = "callback" -> "end"
      [] p = "end" -> "submit"
      [] p = "submit" -> "wait_fence"
      [] p = "wait_fence" -> "destroy_fence"
      [] p = "destroy_fence" -> "wait_idle"
      [] p = "wait_idle" -> "idle"

\* Indices of the submitted commands that are not barriers.
GpuWork == {i \in 1..Len(gpuCmds) : gpuCmds[i].cmd # "pipeline_barrier"}

\* Every command submitted to the device, on any queue, is complete.
DeviceIdle == GpuWork \subseteq gpuDone

\* The queue build_and_submit was called on has nothing left to execute.
QueueIdle == \A i \in GpuWork : gpuQueue[i] = queue => i \in gpuDone

WaitSatisfied_NoBlock(kind) == TRUE

\* wait_for_fences(fence, wait_all, u64::MAX) returns SUCCESS once the fence is
\* signalled, queue_wait_idle once the queue is idle; both block until then.
WaitSatisfied(kind) ==
    IF kind = "fence" THEN fenceSignalled ELSE QueueIdle

\* `?` on a driver result: an error leaves build_and_submit at once.
ReturnErr(e) ==
    /\ pc' = "idle"
    /\ result' = e

\* The queues build_and_submit can be called on: two queues of one family, so
\* that one command buffer can be submitted to either.
Queues == {"queue0", "queue1"}

\* The queues call number n can be made on.  The queues are interchangeable,
\* so the first call is on queue0.
CallQueues(n) == IF n = 0 THEN {"queue0"} ELSE Queues

\* What the buffers hold when they are created.
InitialContent == [x \in OpBuffers |-> 0]

\* No download_into made since the last submission.
NoDownload == [buf |-> "-", data |-> <<>>]

\* The call that just returned failed in begin, in the closure or in end, and
\* left the commands recorded until then in the command buffer.
LeftRecording ==
    /\ result.tag = "Err"
    /\ calls[Len(calls)].call \in {"begin_command_buffer", "run_in", "end_command_buffer"}
    /\ cmdbuf # <<>>

\* build_and_submit is called with closure f on one of the queues.
BuildAndSubmit ==
    /\ pc = "idle"
    /\ nCalls < MaxSubmits
    /\ \E f \in Closures :
          /\ prog' = f
          /\ todo' = f
    /\ pc' = "create_fence"
    /\ calls' = <<>>
    /\ result' = ResPending
    /\ fence' = "none"
    /\ fenceSignalled' = FALSE
    /\ nCalls' = nCalls + 1
    /\ \E q \in CallQueues(nCalls) : queue' = q
    /\ lastCall' = [ok |-> result = ResOk, queue |-> queue, stale |-> LeftRecording]
    /\ downloaded' = NoDownload
    /\ UNCHANGED <<cmdbuf, fencesAlive, gpuCmds, gpuDone, mem>>
    /\ UNCHANGED gpuQueue
    /\ UNCHANGED <<nalVars, ownVars, inspVars, extVars>>

\* native_device.create_fence(&fence_info, None)?
CreateFence ==
    /\ pc = "create_fence"
    /\ \E rc \in {SUCCESS} \cup VkErrors :
          /\ calls' = Append(calls, Call("create_fence", rc, NoOp))
          /\ IF rc = SUCCESS
             THEN /\ fence' = "created"
                  /\ fencesAlive' = fencesAlive + 1
                  /\ pc' = NextPc(pc)
                  /\ UNCHANGED result
             ELSE /\ ReturnErr(FromVkResult(rc))
                  /\ UNCHANGED <<fence, fencesAlive>>
    /\ UNCHANGED <<prog, todo, cmdbuf, fenceSignalled, gpuCmds, gpuDone, mem, nCalls>>
    /\ UNCHANGED <<queueVars, hostVars>>
    /\ UNCHANGED <<nalVars, ownVars, inspVars, extVars>>

ResetContents_Keep(cb) == cb

\* CommandBufferShared::reset: vkResetCommandBuffer discards every command
\* recorded so far and returns the command buffer to its initial state.
ResetContents(cb) == <<>>

\* native_device.reset_command_buffer(native_command_buffer, empty)?
ResetCommandBuffer ==
    /\ pc = "reset"
    /\ \E rc \in {SUCCESS} \cup VkErrors :
          /\ calls' = Append(calls, Call("reset_command_buffer", rc, NoOp))
          /\ IF rc = SUCCESS
             THEN /\ cmdbuf' = ResetContents(cmdbuf)
                  /\ pc' = NextPc(pc)
                  /\ UNCHANGED result
             ELSE /\ ReturnErr(FromVkResult(rc))
                  /\ UNCHANGED cmdbuf
    /\ UNCHANGED <<prog, todo, fence, fenceSignalled, fencesAlive, gpuCmds, gpuDone, mem, nCalls>>
    /\ UNCHANGED <<queueVars, hostVars>>
    /\ UNCHANGED <<nalVars, ownVars, inspVars, extVars>>

\* native_device.begin_command_buffer(native_command_buffer, &begin_info)?
BeginCommandBuffer ==
    /\ pc = "begin"
    /\ \E rc \in {SUCCESS} \cup VkErrors :
          /\ calls' = Append(calls, Call("begin_command_buffer", rc, NoOp))
          /\ IF rc = SUCCESS
             THEN /\ pc' = NextPc(pc)
                  /\ UNCHANGED result
             ELSE ReturnErr(FromVkResult(rc))
    /\ UNCHANGED <<prog, todo, cmdbuf, fence, fenceSignalled, fencesAlive, gpuCmds, gpuDone, mem, nCalls>>
    /\ UNCHANGED <<queueVars, hostVars>>
    /\ UNCHANGED <<nalVars, ownVars, inspVars, extVars>>

\* f(&mut queue_live)?  - one run_in(x)? of the closure
RunOp ==
    /\ pc = "callback"
    /\ todo # <<>>
    /\ LET o == Head(todo) IN
          /\ todo' = Tail(todo)
          /\ IF o.op = "Failing"
             THEN /\ calls' = Append(calls, Call("run_in", o.err.code, o))
                  /\ ReturnErr(o.err)
                  /\ UNCHANGED cmdbuf
             ELSE /\ calls' = Append(calls, Call("run_in", SUCCESS, o))
                  /\ cmdbuf' = cmdbuf \o RunIn(o)
                  /\ UNCHANGED <<pc, result>>
    /\ UNCHANGED <<prog, fence, fenceSignalled, fencesAlive, gpuCmds, gpuDone, mem, nCalls>>
    /\ UNCHANGED <<queueVars, hostVars>>
    /\ UNCHANGED <<nalVars, ownVars, inspVars, extVars>>

\* the closure returns Ok(())
ClosureReturns ==
    /\ pc = "callback"
    /\ todo = <<>>
    /\ pc' = NextPc(pc)
    /\ UNCHANGED <<prog, todo, cmdbuf, calls, result, fence, fenceSignalled,
                   fencesAlive, gpuCmds, gpuDone, mem, nCalls>>
    /\ UNCHANGED <<queueVars, hostVars>>
    /\ UNCHANGED <<nalVars, ownVars, inspVars, extVars>>

\* native_device.end_command_buffer(native_command_buffer)?
EndCommandBuffer ==
    /\ pc = "end"
    /\ \E rc \in {SUCCESS} \cup VkErrors :
          /\ calls' = Append(calls, Call("end_command_buffer", rc, NoOp))
          /\ IF rc = SUCCESS
             THEN /\ pc' = NextPc(pc)
                  /\ UNCHANGED result
             ELSE ReturnErr(FromVkResult(rc))
    /\ UNCHANGED <<prog, todo, cmdbuf, fence, fenceSignalled, fencesAlive, gpuCmds, gpuDone, mem, nCalls>>
    /\ UNCHANGED <<queueVars, hostVars>>
    /\ UNCHANGED <<nalVars, ownVars, inspVars, extVars>>

\* The queue each command of a submitted command buffer runs on.
OnQueue(cb, q) == [i \in 1..Len(cb) |-> q]

SubmittedFence_Null(f) == f

\* queue_submit is handed the fence create_fence returned: the device signals
\* it once the submission is complete.
SubmittedFence(f) == IF f = "created" THEN "pending" ELSE f

\* native_device.queue_submit(native_queue, &[submit_info], fence)?
\* The queue takes over the recorded commands; completed work is forgotten.
QueueSubmit ==
    /\ pc = "submit"
    /\ \E rc \in {SUCCESS} \cup VkErrors :
          /\ calls' = Append(calls, Call("queue_submit", rc, NoOp))
          /\ IF rc = SUCCESS
             THEN /\ gpuCmds' = IF DeviceIdle THEN cmdbuf ELSE gpuCmds \o cmdbuf
                  /\ gpuQueue' = IF DeviceIdle THEN OnQueue(cmdbuf, queue)
                                  ELSE gpuQueue \o OnQueue(cmdbuf, queue)
                  /\ gpuDone' = IF DeviceIdle THEN {} ELSE gpuDone
                  /\ fence' = SubmittedFence(fence)
                  /\ pc' = NextPc(pc)
                  /\ UNCHANGED result
             ELSE /\ ReturnErr(FromVkResult(rc))
                  /\ UNCHANGED <<gpuCmds, gpuQueue, gpuDone, fence>>
    /\ UNCHANGED <<prog, todo, cmdbuf, fenceSignalled, fencesAlive, mem, nCalls>>
    /\ UNCHANGED <<queue, lastCall, hostVars>>
    /\ UNCHANGED <<nalVars, ownVars, inspVars, extVars>>

\* native_device.wait_for_fences(&[fence], true, u64::MAX)?
WaitForFences ==
    /\ pc = "wait_fence"
    /\ \E rc \in {SUCCESS} \cup VkErrors :
          /\ rc = SUCCESS => WaitSatisfied("fence")
          /\ calls' = Append(calls, Call("wait_for_fences", rc, NoOp))
          /\ IF rc = SUCCESS
             THEN /\ pc' = NextPc(pc)
                  /\ UNCHANGED result
             ELSE ReturnErr(FromVkResult(rc))
    /\ UNCHANGED <<prog, todo, cmdbuf, fence, fenceSignalled, fencesAlive, gpuCmds, gpuDone, mem, nCalls>>
    /\ UNCHANGED <<queueVars, hostVars>>
    /\ UNCHANGED <<nalVars, ownVars, inspVars, extVars>>

\* native_device.destroy_fence(fence, None)
DestroyFence ==
    /\ pc = "destroy_fence"
    /\ calls' = Append(calls, Call("destroy_fence", SUCCESS, NoOp))
    /\ fence' = "destroyed"
    /\ fencesAlive' = fencesAlive - 1
    /\ pc' = NextPc(pc)
    /\ UNCHANGED <<prog, todo, cmdbuf, result, fenceSignalled, gpuCmds, gpuDone, mem, nCalls>>
    /\ UNCHANGED <<queueVars, hostVars>>
    /\ UNCHANGED <<nalVars, ownVars, inspVars, extVars>>

\* native_device.queue_wait_idle(native_queue)?  then Ok(())
QueueWaitIdle ==
    /\ pc = "wait_idle"
    /\ \E rc \in {SUCCESS} \cup VkErrors :
          /\ rc = SUCCESS => WaitSatisfied("idle")
          /\ calls' = Append(calls, Call("queue_wait_idle", rc, NoOp))
          /\ IF rc = SUCCESS
             THEN /\ pc' = NextPc(pc)
                  /\ result' = ResOk
             ELSE ReturnErr(FromVkResult(rc))
    /\ UNCHANGED <<prog, todo, cmdbuf, fence, fenceSignalled, fencesAlive, gpuCmds, gpuDone, mem, nCalls>>
    /\ UNCHANGED <<queueVars, hostVars>>
    /\ UNCHANGED <<nalVars, ownVars, inspVars, extVars>>

\* The device may start submitted command i: it is not complete, and every
\* command of its queue that precedes a pipeline barrier submitted to that queue
\* before i is complete.  Commands with no barrier between them, and commands
\* of different queues, are not ordered by the device.
GpuMayExecute(i) ==
    /\ i \in GpuWork \ gpuDone
    /\ \A k \in 1..(i - 1) :
          (gpuCmds[k].cmd = "pipeline_barrier" /\ gpuQueue[k] = gpuQueue[i])
              => \A j \in 1..(k - 1) :
                    (j \in GpuWork /\ gpuQueue[j] = gpuQueue[i]) => j \in gpuDone

\* What a command does to the buffers.
GpuEffect(c, m) ==
    CASE c.cmd = "fill_buffer" -> [m EXCEPT ![c.a] = c.v]
      [] c.cmd = "copy_buffer" -> [m EXCEPT ![c.b] = m[c.a]]
      [] OTHER -> m

\* The device executes one submitted command.
GpuExecute ==
    /\ \E i \in 1..Len(gpuCmds) :
          /\ GpuMayExecute(i)
          /\ gpuDone' = gpuDone \cup {i}
          /\ mem' = GpuEffect(gpuCmds[i], mem)
    /\ UNCHANGED <<pc, prog, todo, cmdbuf, calls, result, fence, fenceSignalled,
                   fencesAlive, gpuCmds, nCalls>>
    /\ UNCHANGED <<queueVars, hostVars>>
    /\ UNCHANGED <<nalVars, ownVars, inspVars, extVars>>

\* The device signals the fence of a submission once its commands are complete.
GpuSignalFence ==
    /\ fence = "pending"
    /\ ~fenceSignalled
    /\ QueueIdle
    /\ fenceSignalled' = TRUE
    /\ UNCHANGED <<pc, prog, todo, cmdbuf, calls, result, fence, fencesAlive,
                   gpuCmds, gpuDone, mem, nCalls>>
    /\ UNCHANGED <<queueVars, hostVars>>
    /\ UNCHANGED <<nalVars, ownVars, inspVars, extVars>>

\* The four bytes a 32-bit word occupies in memory, lowest address first.
WordBytes_BigEndian(w) == [i \in 1..4 |-> (w \div (256 ^ (4 - i))) % 256]

\* vkCmdFillBuffer writes the word in the byte order of the host, which is
\* little-endian on every target the crate builds for.
WordBytes(w) == [i \in 1..4 |-> (w \div (256 ^ (i - 1))) % 256]

\* The words a host read of buffer b through a mapping can observe.  Memory
\* picked by any_host_visible is HOST_VISIBLE and need not be HOST_COHERENT: a
\* device write then reaches the host only through an invalidate of the mapped
\* range, which download_into does not issue, so the read observes either the
\* device's content or the content from before the device's writes.
HostReadable(b) == {mem[b], InitialContent[b]}

\* Buffer::download_into(&mut target): map_memory, copy_nonoverlapping of
\* target.len() bytes, unmap_memory.
DownloadInto ==
    /\ pc = "idle"
    /\ downloaded = NoDownload
    /\ \E b \in OpBuffers : \E w \in HostReadable(b) :
          /\ downloaded' = [buf |-> b,
                            data |-> [j \in 1..DownloadLen |-> WordBytes(w)[((j - 1) % 4) + 1]]]
    /\ UNCHANGED <<pc, prog, todo, cmdbuf, calls, result, fence, fenceSignalled,
                   fencesAlive, gpuCmds, gpuDone, mem, nCalls>>
    /\ UNCHANGED queueVars
    /\ UNCHANGED <<nalVars, ownVars, inspVars, extVars>>

(***************************************************************************)
(* Resource ownership: every ...Shared value owns Arcs of the values it     *)
(* depends on; its Drop issues the native destroy call, then its fields    *)
(* are dropped in declaration order.                                       *)
(* The creation actions are the constructors returning Ok.  The instance   *)
(* and the physical device, which the device itself depends on, are not    *)
(* part of the model.                                                      *)
(***************************************************************************)

NumAllocations == 2
NumBuffers == 1
NumImages == 1

Dev == <<"device", 1>>
Allocations == {<<"allocation", k>> : k \in 1..NumAllocations}
Buffers == {<<"buffer", k>> : k \in 1..NumBuffers}
Images == {<<"image", k>> : k \in 1..NumImages}
ParamSets == {<<"parameters", 1>>}
Shaders == {<<"shader", 1>>}
Pipelines == {<<"pipeline", 1>>}
\* operation objects, which hold Arcs of the resources they work on
FillOps == {<<"fillbuffer", 1>>}
CopyI2BOps == {<<"copyimage2buffer", 1>>}

Resources == {Dev} \cup Allocations \cup Buffers \cup Images
                   \cup ParamSets \cup Shaders \cup Pipelines
OpObjects == FillOps \cup CopyI2BOps
Nodes == Resources \cup OpObjects

Kind(n) == n[1]

DestroyCalls_LeakBuffer(k) ==
    CASE k = "device" -> <<"destroy_device">>
      [] k = "allocation" -> <<"free_memory">>
      [] k = "buffer" -> <<>>
      [] k = "image" -> <<"destroy_image">>
      [] k = "parameters" -> <<"destroy_descriptor_set_layout">>
      [] k = "shader" -> <<"destroy_shader_module">>
      [] k = "pipeline" -> <<"destroy_pipeline", "destroy_pipeline_layout">>
      [] OTHER -> <<>>

\* The native calls of each impl Drop.
DestroyCalls(k) ==
    CASE k = "device" -> <<"destroy_device">>
      [] k = "allocation" -> <<"free_memory">>
      [] k = "buffer" -> <<"destroy_buffer">>
      [] k = "image" -> <<"destroy_image">>
      [] k = "parameters" -> <<"destroy_descriptor_set_layout">>
      [] k = "shader" -> <<"destroy_shader_module">>
      [] k = "pipeline" -> <<"destroy_pipeline", "destroy_pipeline_layout">>
      [] OTHER -> <<>>

\* struct AllocationShared { shared_instance, shared_device, device_memory }
AllocationSharedFields == <<Dev>>

BufferSharedFields_NativeOnly(a) == <<>>

\* struct BufferShared { shared_device, shared_allocation, device_buffer, buffer_info }
BufferSharedFields(a) == <<Dev, a>>

\* struct ImageShared { shared_device, shared_allocation: RefCell<Option<..>>, .. }
ImageSharedFields == <<Dev>>

ImageSharedBound_NoAllocation(a) == <<Dev>>

\* ImageShared after self.shared_allocation.replace(Some(shared_allocation))
ImageSharedBound(a) == <<Dev, a>>

\* struct ParametersShared { shared_device, descriptor_set_layout, .. }
ParametersSharedFields == <<Dev>>

\* struct ShaderShared { shared_device, shared_parameters, shader_module, entry_point }
ShaderSharedFields(p) == <<Dev, p>>

\* struct PipelineShared { shared_device, shared_shader, shared_parameters, .. }
PipelineSharedFields(s, p) == <<Dev, s, p>>

\* The mutable part of the state a drop works on.
OwnState == [strong |-> strong, native |-> native, log |-> log]

LogEntries(calls_, n) == [i \in 1..Len(calls_) |-> <<calls_[i], n>>]

\* impl Drop for ...Shared: the native destroy calls of n.
RunDrop(st, n) ==
    LET dc == DestroyCalls(Kind(n)) IN
    [st EXCEPT !.native[n] = IF dc = <<>> THEN @ ELSE "destroyed",
               !.log = @ \o LogEntries(dc, n)]

RECURSIVE ArcDrop(_, _)
RECURSIVE DropFields(_, _)

\* Dropping one Arc of n: the count goes down; at zero the value is dropped,
\* which runs its Drop and then drops its fields.
ArcDrop(st, n) ==
    LET st1 == [st EXCEPT !.strong[n] = @ - 1] IN
    IF st1.strong[n] > 0 THEN st1
    ELSE DropFields(RunDrop(st1, n), fields[n])

\* Dropping the Arc fields fs of a value, in declaration order.
DropFields(st, fs) ==
    IF fs = <<>> THEN st
    ELSE DropFields(ArcDrop(st, Head(fs)), Tail(fs))

\* Arc::clone of every Arc in fs.
CloneAll(r, fs) ==
    [n \in Nodes |-> r[n] + Cardinality({i \in DOMAIN fs : fs[i] = n})]

RetNone == [op |-> "-", img |-> Dev, alloc |-> Dev, res |-> "-", prev |-> <<>>, bound |-> FALSE]

Commit(st) ==
    /\ strong' = st.strong
    /\ native' = st.native
    /\ log' = st.log

\* A constructor returning Ok: the new ...Shared value owns clones of the Arcs
\* fs, its native object exists, and the caller gets the one handle to it.
Construct(n, fs, from) ==
    /\ native[n] = "none"
    /\ native' = [native EXCEPT ![n] = "alive"]
    /\ strong' = [CloneAll(strong, fs) EXCEPT ![n] = 1]
    /\ handle' = [handle EXCEPT ![n] = TRUE]
    /\ fields' = [fields EXCEPT ![n] = fs]
    /\ uses' = [uses EXCEPT ![n] = from]
    /\ ret' = RetNone
    /\ UNCHANGED log
    /\ UNCHANGED <<nalVars, subVars, inspVars, extVars>>

\* Allocation::new(&device, size, type_index)
AllocationNew ==
    \E a \in Allocations :
        /\ handle[Dev]
        /\ Construct(a, AllocationSharedFields, {Dev})

\* Buffer::new(&allocation, &info): create_buffer on the allocation's device,
\* bind_buffer_memory to the allocation's memory
BufferNew ==
    \E b \in Buffers, a \in Allocations :
        /\ handle[a]
        /\ Construct(b, BufferSharedFields(a), {Dev, a})

\* Image::new(&device, &info): an unbound image
ImageNew ==
    \E i \in Images :
        /\ handle[Dev]
        /\ Construct(i, ImageSharedFields, {Dev})

\* Parameters::new(&device)
ParametersNew ==
    \E p \in ParamSets :
        /\ handle[Dev]
        /\ Construct(p, ParametersSharedFields, {Dev})

\* Shader::new(&device, spirv, entry_point, &parameters)
ShaderNew ==
    \E s \in Shaders, p \in ParamSets :
        /\ handle[Dev]
        /\ handle[p]
        /\ Construct(s, ShaderSharedFields(p), {Dev})

\* Pipeline::new(&device, &shader): the parameters are the shader's
PipelineNew ==
    \E l \in Pipelines, s \in Shaders :
        /\ handle[Dev]
        /\ handle[s]
        /\ Construct(l, PipelineSharedFields(s, fields[s][2]), {Dev})

\* FillBuffer::new(&buffer, value) holds buffer.shared()
FillBufferNew ==
    \E o \in FillOps, b \in Buffers :
        /\ ~handle[o]
        /\ handle[b]
        /\ strong' = CloneAll(strong, <<b>>)
        /\ fields' = [fields EXCEPT ![o] = <<b>>]
        /\ handle' = [handle EXCEPT ![o] = TRUE]
        /\ ret' = RetNone
        /\ UNCHANGED <<native, uses, log>>
        /\ UNCHANGED <<nalVars, subVars, inspVars, extVars>>

\* CopyImage2Buffer::new(&image, &buffer, aspect) holds image.shared() and buffer.shared()
CopyImage2BufferNew ==
    \E o \in CopyI2BOps, i \in Images, b \in Buffers :
        /\ ~handle[o]
        /\ handle[i]
        /\ handle[b]
        /\ strong' = CloneAll(strong, <<i, b>>)
        /\ fields' = [fields EXCEPT ![o] = <<i, b>>]
        /\ handle' = [handle EXCEPT ![o] = TRUE]
        /\ ret' = RetNone
        /\ UNCHANGED <<native, uses, log>>
        /\ UNCHANGED <<nalVars, subVars, inspVars, extVars>>

\* The caller drops a handle: the one Arc the handle owns is dropped.
Release ==
    \E n \in Resources :
        /\ handle[n]
        /\ handle' = [handle EXCEPT ![n] = FALSE]
        /\ Commit(ArcDrop(OwnState, n))
        /\ ret' = RetNone
        /\ UNCHANGED <<fields, uses>>
        /\ UNCHANGED <<nalVars, subVars, inspVars, extVars>>

\* The caller drops an operation object: its Arc fields are dropped.
OpDrop ==
    \E o \in OpObjects :
        /\ handle[o]
        /\ handle' = [handle EXCEPT ![o] = FALSE]
        /\ Commit(DropFields(OwnState, fields[o]))
        /\ ret' = RetNone
        /\ UNCHANGED <<fields, uses>>
        /\ UNCHANGED <<nalVars, subVars, inspVars, extVars>>

\* The allocation an image is bound to, <<>> when unbound.
BoundTo(fs) == IF Len(fs) >= 2 THEN <<fs[2]>> ELSE <<>>

\* Image::bind(self, &allocation) -> Result<Self, Error>
\*   self.shared.bind(allocation.shared())?;  Ok(self)
\* with ImageShared::bind: Err(ImageAlreadyBound) when shared_allocation is
\* Some, else bind_image_memory(..)? and the allocation is stored.  On either
\* error the `?` returns and self, taken by value, is dropped.
ImageBind ==
    \E i \in Images, a \in Allocations :
        /\ handle[i]
        /\ handle[a]
        /\ LET prev == BoundTo(fields[i]) IN
           IF prev # <<>>
           THEN \* already bound: the Arc passed in is dropped, then self
                /\ handle' = [handle EXCEPT ![i] = FALSE]
                /\ Commit(ArcDrop(OwnState, i))
                /\ ret' = [op |-> "bind", img |-> i, alloc |-> a,
                           res |-> "ImageAlreadyBound", prev |-> prev, bound |-> FALSE]
                /\ UNCHANGED <<fields, uses>>
           ELSE \E vk \in {SUCCESS, "ERROR_OUT_OF_DEVICE_MEMORY"} :
                IF vk = SUCCESS
                THEN /\ strong' = CloneAll(strong, BoundTo(ImageSharedBound(a)))
                     /\ fields' = [fields EXCEPT ![i] = ImageSharedBound(a)]
                     /\ uses' = [uses EXCEPT ![i] = @ \cup {a}]
                     /\ log' = Append(log, <<"bind_image_memory", i>>)
                     /\ ret' = [op |-> "bind", img |-> i, alloc |-> a,
                                res |-> "Ok", prev |-> prev, bound |-> TRUE]
                     /\ UNCHANGED <<native, handle>>
                ELSE /\ handle' = [handle EXCEPT ![i] = FALSE]
                     /\ Commit(ArcDrop([OwnState EXCEPT
                            !.log = Append(@, <<"bind_image_memory_failed", i>>)], i))
                     /\ ret' = [op |-> "bind", img |-> i, alloc |-> a,
                                res |-> "Vulkan", prev |-> prev, bound |-> TRUE]
                     /\ UNCHANGED <<fields, uses>>
        /\ UNCHANGED <<nalVars, subVars, inspVars, extVars>>

(***************************************************************************)
(* The stream inspector: H264StreamInspector::feed_nal over the parameter  *)
(* context, run_with_create_info building the nested native structures,    *)
(* and VideoSessionParametersShared::new                                   *)
(***************************************************************************)

\* Largest sequence / picture parameter set id fed.
MaxSpsId == 1
MaxPpsId == 1

SpsIds == 0..MaxSpsId
PpsIds == 0..MaxPpsId

\* The SPS fed, by level_idc, by what they carry besides their plain fields
\* (no VUI, a VUI, a VUI with HRD parameters) and by whether they have a
\* scaling matrix.
SpsShapes == {<<31, "none", FALSE>>, <<31, "vui", TRUE>>, <<8, "hrd", FALSE>>, <<8, "hrd", TRUE>>}

None == [id |-> -1, seq_parameter_set_id |-> -1, val |-> 0, vui |-> "none", scaling |-> FALSE]

\* SeqParameterSet
SpsRec(id, level, vui, scaling) ==
    [id |-> id, seq_parameter_set_id |-> id, val |-> level, vui |-> vui, scaling |-> scaling]

\* PicParameterSet
PpsRec(id, ref, scaling) ==
    [id |-> id, seq_parameter_set_id |-> ref, val |-> 0, vui |-> "none", scaling |-> scaling]

SpsRecords == {SpsRec(i, sh[1], sh[2], sh[3]) : i \in SpsIds, sh \in SpsShapes}
PpsRecords == {PpsRec(i, r, sc) : i \in PpsIds, r \in SpsIds, sc \in BOOLEAN}

\* The NAL units fed: SPS and PPS units, sound or with a bit-level fault in
\* the payload, units of another type, and units whose header does not parse.
Nals ==
    {[type |-> "SeqParameterSet", fault |-> f, rec |-> r] : f \in {"none", "bits"}, r \in SpsRecords}
    \cup {[type |-> "PicParameterSet", fault |-> f, rec |-> r] : f \in {"none", "bits"}, r \in PpsRecords}
    \cup {[type |-> "Other", fault |-> "none", rec |-> None],
          [type |-> "BadHeader", fault |-> "header", rec |-> None]}

ParseOk(r) == [ok |-> TRUE, err |-> "-", rec |-> r]
ParseErr(e) == [ok |-> FALSE, err |-> e, rec |-> None]

\* nal.header()
Header(nal) ==
    IF nal.type = "BadHeader" THEN ParseErr("NalHeaderError") ELSE ParseOk(None)

\* SeqParameterSet::from_bits(bits)
SpsFromBits(nal) ==
    IF nal.fault = "bits" THEN ParseErr("SpsError") ELSE ParseOk(nal.rec)

\* PicParameterSet::from_bits(&context, bits): the SPS the PPS refers to is
\* looked up in the context.
PpsFromBits(ctx, nal) ==
    IF ctx.sps[nal.rec.seq_parameter_set_id] = None THEN ParseErr("BadSeqParamSetId")
    ELSE IF nal.fault = "bits" THEN ParseErr("PpsError")
    ELSE ParseOk(nal.rec)

\* Context::default()
EmptyContext == [sps |-> [i \in SpsIds |-> None], pps |-> [i \in PpsIds |-> None]]

\* Context::put_seq_param_set
put_seq_param_set(ctx, sps) == [ctx EXCEPT !.sps[sps.id] = sps]

\* What feed_nal does with the three parse results: every .unwrap() panics on
\* an error; a parsed SPS is put into the context, a parsed PPS is dropped.
FeedOutcome(ctx, nal) ==
    LET h == Header(nal) IN
    IF ~h.ok THEN [outcome |-> "Panic", err |-> h.err, ctx |-> ctx, parsed |-> None]
    ELSE IF nal.type = "SeqParameterSet"
    THEN LET sps == SpsFromBits(nal) IN
         IF ~sps.ok THEN [outcome |-> "Panic", err |-> sps.err, ctx |-> ctx, parsed |-> None]
         ELSE [outcome |-> "Unit", err |-> "-", ctx |-> put_seq_param_set(ctx, sps.rec),
               parsed |-> sps.rec]
    ELSE IF nal.type = "PicParameterSet"
    THEN LET pps == PpsFromBits(ctx, nal) IN
         IF ~pps.ok THEN [outcome |-> "Panic", err |-> pps.err, ctx |-> ctx, parsed |-> None]
         ELSE [outcome |-> "Unit", err |-> "-", ctx |-> ctx, parsed |-> pps.rec]
    ELSE [outcome |-> "Unit", err |-> "-", ctx |-> ctx, parsed |-> None]

FeedNone == [nal |-> [type |-> "-", fault |-> "none", rec |-> None], outcome |-> "-", err |-> "-"]

\* H264StreamInspector::feed_nal(&mut self, nal).  The call needs the inspector
\* unborrowed, and a panic ends the thread that owns it.
FeedNal ==
    /\ ~panicked
    /\ rwPc = "idle"
    /\ \E nal \in Nals :
          LET o == FeedOutcome(h264_context, nal) IN
          /\ h264_context' = o.ctx
          /\ panicked' = (o.outcome = "Panic")
          /\ feedRet' = [nal |-> nal, outcome |-> o.outcome, err |-> o.err]
          /\ lastParsed' =
                IF o.parsed = None THEN lastParsed
                ELSE IF nal.type = "SeqParameterSet"
                     THEN [lastParsed EXCEPT !.sps[o.parsed.id] = o.parsed]
                     ELSE [lastParsed EXCEPT !.pps[o.parsed.id] = o.parsed]
    /\ UNCHANGED <<rwPc, heap, vsp>>
    /\ UNCHANGED <<nalVars, subVars, ownVars, extVars>>

\* The records of a context map in id order: context().sps() / context().pps()
RECURSIVE RecordsFrom(_, _, _)
RecordsFrom(map, i, hi) ==
    IF i > hi THEN <<>>
    ELSE (IF map[i] = None THEN <<>> ELSE <<map[i]>>) \o RecordsFrom(map, i + 1, hi)

ContextSps == RecordsFrom(h264_context.sps, 0, MaxSpsId)
ContextPps == RecordsFrom(h264_context.pps, 0, MaxPpsId)

\* A record in memory: where it is, the parameter set it was built from, and
\* the non-null pointers it holds.
Obj(loc, from, ptrs) == [loc |-> loc, from |-> from, ptrs |-> ptrs]
Ptr(field, target) == [field |-> field, target |-> target]

\* The parameter sets inside the context, borrowed for the whole call.
ContextObjs ==
    {Obj(<<"context.sps", r.id>>, r, {}) : r \in {h264_context.sps[i] : i \in SpsIds} \ {None}}
    \cup {Obj(<<"context.pps", r.id>>, r, {}) : r \in {h264_context.pps[i] : i \in PpsIds} \ {None}}

RwNextPc_Level3First(p) ==
    CASE p = "idle" -> "sps3"
      [] p = "sps3" -> "sps2"
      [] p = "sps2" -> "pps1"
      [] p = "pps1" -> "pps2"
      [] p = "pps2" -> "info"
      [] p = "info" -> "in_f"
      [] p = "in_f" -> "idle"

\* The statement order of run_with_create_info: a position is named after the
\* vector built next (sps1 is built in the step that leaves "idle").
RwNextPc(p) ==
    CASE p = "idle" -> "sps2"
      [] p = "sps2" -> "sps3"
      [] p = "sps3" -> "pps1"
      [] p = "pps1" -> "pps2"
      [] p = "pps2" -> "info"
      [] p = "info" -> "in_f"
      [] p = "in_f" -> "idle"

HrdPointer_Temporary(k) == <<"SpsInfo1::new", k>>

\* pHrdParameters: self.p_hrd_parameters.as_ref(), self being element k of sps1
HrdPointer(k) == <<"sps1", k>>

\* let sps1: Vec<_> = self.context().sps().map(SpsInfo1::new).collect();
Sps1Collect ==
    /\ rwPc = "idle"
    /\ ~panicked
    /\ heap' = {Obj(<<"sps1", k>>, ContextSps[k],
                    {Ptr("sps", <<"context.sps", ContextSps[k].id>>)}) : k \in DOMAIN ContextSps}
    /\ rwPc' = RwNextPc(rwPc)
    /\ UNCHANGED <<h264_context, lastParsed, feedRet, panicked, vsp>>
    /\ UNCHANGED <<nalVars, subVars, ownVars, extVars>>

\* let sps2: Vec<_> = sps1.iter().map(SpsInfo1::step2).collect();
Sps2Collect ==
    /\ rwPc = "sps2"
    /\ heap' = heap \cup
          {Obj(<<"sps2", k>>, ContextSps[k],
               {Ptr("sps", <<"context.sps", ContextSps[k].id>>)}
               \cup (IF ContextSps[k].vui = "hrd"
                     THEN {Ptr("pHrdParameters", HrdPointer(k))} ELSE {})) : k \in DOMAIN ContextSps}
    /\ rwPc' = RwNextPc(rwPc)
    /\ UNCHANGED <<h264_context, lastParsed, feedRet, panicked, vsp>>
    /\ UNCHANGED <<nalVars, subVars, ownVars, extVars>>

\* let sps3: Vec<_> = sps2.iter().map(SpsInfo2::step3).collect();
Sps3Collect ==
    /\ rwPc = "sps3"
    /\ heap' = heap \cup
          {Obj(<<"sps3", k>>, ContextSps[k],
               (IF ContextSps[k].scaling THEN {Ptr("pScalingLists", <<"sps2", k>>)} ELSE {})
               \cup (IF ContextSps[k].vui # "none"
                     THEN {Ptr("pSequenceParameterSetVui", <<"sps2", k>>)} ELSE {})) :
             k \in DOMAIN ContextSps}
    /\ rwPc' = RwNextPc(rwPc)
    /\ UNCHANGED <<h264_context, lastParsed, feedRet, panicked, vsp>>
    /\ UNCHANGED <<nalVars, subVars, ownVars, extVars>>

\* let pps1: Vec<_> = self.context().pps().map(PpsInfo1::new).collect();
Pps1Collect ==
    /\ rwPc = "pps1"
    /\ heap' = heap \cup
          {Obj(<<"pps1", k>>, ContextPps[k],
               {Ptr("pps", <<"context.pps", ContextPps[k].id>>)}) : k \in DOMAIN ContextPps}
    /\ rwPc' = RwNextPc(rwPc)
    /\ UNCHANGED <<h264_context, lastParsed, feedRet, panicked, vsp>>
    /\ UNCHANGED <<nalVars, subVars, ownVars, extVars>>

\* let pps2: Vec<_> = pps1.iter().map(PpsInfo1::step2).collect();
Pps2Collect ==
    /\ rwPc = "pps2"
    /\ heap' = heap \cup
          {Obj(<<"pps2", k>>, ContextPps[k],
               IF ContextPps[k].scaling THEN {Ptr("pScalingLists", <<"pps1", k>>)} ELSE {}) :
             k \in DOMAIN ContextPps}
    /\ rwPc' = RwNextPc(rwPc)
    /\ UNCHANGED <<h264_context, lastParsed, feedRet, panicked, vsp>>
    /\ UNCHANGED <<nalVars, subVars, ownVars, extVars>>

\* The add-info with the two arrays, the create-info pointing to it, and the
\* call of the continuation f with the create-info.
CallContinuation ==
    /\ rwPc = "info"
    /\ heap' = heap \cup
          {Obj(<<"create_info", 1>>, None,
               {Ptr("pStdSPSs", <<"sps3", k>>) : k \in DOMAIN ContextSps}
               \cup {Ptr("pStdPPSs", <<"pps2", k>>) : k \in DOMAIN ContextPps}),
           Obj(<<"video_decode_h264session_parameters_create_info", 1>>, None,
               {Ptr("pParametersAddInfo", <<"create_info", 1>>)})}
    /\ rwPc' = RwNextPc(rwPc)
    /\ UNCHANGED <<h264_context, lastParsed, feedRet, panicked, vsp>>
    /\ UNCHANGED <<nalVars, subVars, ownVars, extVars>>

\* f returns; the locals of run_with_create_info are dropped.
ContinuationReturns ==
    /\ rwPc = "in_f"
    /\ heap' = {}
    /\ rwPc' = RwNextPc(rwPc)
    /\ UNCHANGED <<h264_context, lastParsed, feedRet, panicked, vsp>>
    /\ UNCHANGED <<nalVars, subVars, ownVars, extVars>>

\* The sps_info literal of VideoSessionParametersShared::new
HardCodedSps == SpsRec(0, 8, "hrd", FALSE)

\* The pps_info literal of VideoSessionParametersShared::new
HardCodedPps == PpsRec(0, 0, FALSE)

NoVsp == [created |-> FALSE, sps |-> {}, pps |-> {}, at |-> EmptyContext]

\* VideoSessionParameters::new(&session, &stream_inspector): the records handed
\* to create_video_session_parameters_khr; `at` keeps the context the
\* inspector had at that time.
VideoSessionParametersNew ==
    /\ ~panicked
    /\ rwPc = "idle"
    /\ ~vsp.created
    /\ \E rc \in {SUCCESS} \cup VkErrors :
          vsp' = IF rc = SUCCESS
                 THEN [created |-> TRUE, sps |-> {HardCodedSps}, pps |-> {HardCodedPps},
                       at |-> h264_context]
                 ELSE vsp
    /\ UNCHANGED <<h264_context, lastParsed, feedRet, panicked, rwPc, heap>>
    /\ UNCHANGED <<nalVars, subVars, ownVars, extVars>>

(***************************************************************************)
(* One run_in call: what an operation appends to a command buffer.         *)
(***************************************************************************)

\* The operations run_in is called on.
RecordedOps ==
    {OpFill(x, val) : x \in OpBuffers, val \in FillValues}
    \cup {OpCopy(p[1], p[2]) : p \in {q \in OpBuffers \X OpBuffers : q[1] # q[2]}}
    \cup {OpDecode(x, t, r) : x \in OpBuffers, t \in OpImages, r \in OpImages}
    \cup {OpCompute(ps) : ps \in ParameterSets}

\* run_in is about to be called on an operation of set S with an empty
\* command buffer.
RunInCalled(S) ==
    /\ recOp \in S
    /\ recCmds = <<>>
    /\ recBindings = <<>>
    /\ recRet = "-"

\* op.run_in(builder) returns Ok(()).
RunInReturns ==
    /\ recRet = "-"
    /\ recOp # NoOp
    /\ recCmds' = recCmds \o RunIn(recOp)
    /\ recBindings' = DescriptorWrites(recOp)
    /\ recRet' = "Ok"
    /\ UNCHANGED recOp
    /\ UNCHANGED <<nalVars, subVars, ownVars, inspVars, scalingVars, lifeVars>>

(***************************************************************************)
(* scaling_list: the scaling lists of a parsed parameter set as the        *)
(* StdVideoH264ScalingLists record handed to the driver.                   *)
(***************************************************************************)

\* Most entries in each of the two slices passed to scaling_list.
MaxLists == 3

SCALING_LIST4X4_NUM_LISTS == 6
SCALING_LIST8X8_NUM_LISTS == 6

\* h264_reader::nal::sps::ScalingList: NotPresent | UseDefault | List(values)
ScalingListKinds == {"NotPresent", "UseDefault", "List"}

\* The slices scaling_list can be called with.
ScalingSlices == UNION {[1..n -> ScalingListKinds] : n \in 0..MaxLists}

\* Bit b of mask m.
Bit(m, b) == (m \div (2 ^ b)) % 2

\* m |= 1 << b
OrBit(m, b) == IF Bit(m, b) = 1 THEN m ELSE m + 2 ^ b

\* The match of scaling_list: which mask an entry of a kind sets its bit in.
MaskBitFor(kind) ==
    CASE kind = "NotPresent" -> "present"
      [] kind = "UseDefault" -> "use_default"
      [] kind = "List" -> "none"

RECURSIVE MaskLoop(_, _, _, _, _)
\* The for loop over lists.iter().enumerate(), from entry i on: the bit
\* i + shift is set in mask acc for every entry that sets a bit in mask which.
MaskLoop(lists, i, shift, which, acc) ==
    IF i >= Len(lists) THEN acc
    ELSE MaskLoop(lists, i + 1, shift, which,
                  IF MaskBitFor(lists[i + 1]) = which THEN OrBit(acc, i + shift) ELSE acc)

\* The list arrays: the values of entry i where it is a List, zeroes elsewhere.
ListArray(lists, n) ==
    [i \in 0..(n - 1) |-> IF i < Len(lists) /\ lists[i + 1] = "List" THEN "values" ELSE "zeroes"]

\* fn scaling_list(scaling_list4x4, scaling_list8x8) -> StdVideoH264ScalingLists
scaling_list(scaling_list4x4, scaling_list8x8) ==
    [scaling_list_present_mask |->
         MaskLoop(scaling_list8x8, 0, SCALING_LIST4X4_NUM_LISTS, "present",
                  MaskLoop(scaling_list4x4, 0, 0, "present", 0)),
     use_default_scaling_matrix_mask |->
         MaskLoop(scaling_list8x8, 0, SCALING_LIST4X4_NUM_LISTS, "use_default",
                  MaskLoop(scaling_list4x4, 0, 0, "use_default", 0)),
     ScalingList4x4 |-> ListArray(scaling_list4x4, SCALING_LIST4X4_NUM_LISTS),
     ScalingList8x8 |-> ListArray(scaling_list8x8, SCALING_LIST8X8_NUM_LISTS)]

NoScalingLists == [scaling_list_present_mask |-> 0, use_default_scaling_matrix_mask |-> 0,
                   ScalingList4x4 |-> <<>>, ScalingList8x8 |-> <<>>]

\* scaling_list is about to be called with slices drawn from S4 and S8.
ScalingCalled(S4, S8) ==
    /\ scalingIn \in [l4 : S4, l8 : S8]
    /\ scalingOut = NoScalingLists

\* scaling_list returns.
ScalingListReturns ==
    /\ scalingOut = NoScalingLists
    /\ scalingIn.l4 \o scalingIn.l8 # <<>>
    /\ Len(scalingIn.l4) <= SCALING_LIST4X4_NUM_LISTS
    /\ Len(scalingIn.l8) <= SCALING_LIST8X8_NUM_LISTS
    /\ scalingOut' = scaling_list(scalingIn.l4, scalingIn.l8)
    /\ UNCHANGED scalingIn
    /\ UNCHANGED <<nalVars, subVars, ownVars, inspVars, recVars, lifeVars>>

(***************************************************************************)
(* Fallible constructors: the native objects a creation call has made when *)
(* one of its driver calls fails, and the memory a video session is bound  *)
(* to.                                                                     *)
(***************************************************************************)

\* Most creation calls in one behaviour.
MaxCreations == 3

\* Most memory requirements the driver reports for a video session.
MaxRequirements == 2

\* A native object made by creation call number call.  bound: a memory object
\* the native video session of the same call has been bound to.
NativeObj(kind, call, state, bound) ==
    [kind |-> kind, call |-> call, state |-> state, bound |-> bound]

CreationResult(res, objs) == [res |-> res, objs |-> objs]

\* BufferShared::new:
\*   let device_buffer = native_device.create_buffer(&buffer_create_info, None)?;
\*   native_device.bind_buffer_memory(device_buffer, device_memory, offset)?;
\*   Ok(Self { .. device_buffer .. })
BufferSharedNew(c, rcCreate, rcBind) ==
    IF rcCreate # SUCCESS THEN CreationResult("Err", <<>>)
    ELSE IF rcBind # SUCCESS
         THEN CreationResult("Err", <<NativeObj("buffer", c, "alive", FALSE)>>)
         ELSE CreationResult("Ok", <<NativeObj("buffer", c, "alive", FALSE)>>)

\* PipelineShared::new:
\*   let native_layout = native_device.create_pipeline_layout(&pipeline_layout, None)?;
\*   match native_device.create_compute_pipelines(..) {
\*       Ok(mut pipelines) => pipelines.pop()..,
\*       Err((_, e)) => { native_device.destroy_pipeline_layout(native_layout, None); return Err(..) }
\*   }
\* create_compute_pipelines is called with one create info and returns one
\* pipeline on success.
PipelineSharedNew(c, rcLayout, rcPipelines) ==
    IF rcLayout # SUCCESS THEN CreationResult("Err", <<>>)
    ELSE IF rcPipelines # SUCCESS
         THEN CreationResult("Err", <<NativeObj("pipeline_layout", c, "destroyed", FALSE)>>)
         ELSE CreationResult("Ok", <<NativeObj("pipeline_layout", c, "alive", FALSE),
                                     NativeObj("pipeline", c, "alive", FALSE)>>)

\* The driver calls of VideoSessionShared::new that can fail, in order, for a
\* session with n memory requirements: the capability and format queries,
\* create_video_session, the two memory_requirements calls, one
\* Allocation::new per requirement, bind_video_session_memory.
SessionSteps(n) ==
    <<"query", "create_video_session", "memory_requirements_count", "memory_requirements">>
    \o [k \in 1..n |-> "allocate"] \o <<"bind_video_session_memory">>

\* allocations: Vec<Allocation> after k pushes, as memory objects.
AllocationsVec(c, k, state, bound) == [i \in 1..k |-> NativeObj("memory", c, state, bound)]

\* VideoSessionShared::new with n memory requirements whose step failAt
\* returns an error (0: none does).  Every `?` returns from inside the block;
\* the local allocations vector is dropped when the block is left, on the
\* error paths and after Ok(Self { .. }) was built (the allocations field of
\* the struct is commented out), and dropping an Allocation frees its memory.
VideoSessionSharedNew(c, n, failAt) ==
    LET session == <<NativeObj("video_session", c, "alive", FALSE)>> IN
    IF failAt = 0
    THEN CreationResult("Ok", session \o AllocationsVec(c, n, "destroyed", TRUE))
    ELSE IF failAt <= 2
         THEN CreationResult("Err", <<>>)
         ELSE IF failAt <= 4
              THEN CreationResult("Err", session)
              ELSE IF failAt <= 4 + n
                   THEN CreationResult("Err", session \o AllocationsVec(c, failAt - 5, "destroyed", FALSE))
                   ELSE CreationResult("Err", session \o AllocationsVec(c, n, "destroyed", FALSE))

\* The kinds of native object the Drop of the value a constructor returns destroys.
DropKinds(ctor) ==
    CASE ctor = "Buffer" -> {"buffer"}
      [] ctor = "Pipeline" -> {"pipeline", "pipeline_layout"}
      [] ctor = "VideoSession" -> {"video_session"}

\* A creation call returns: its objects are recorded, the caller holds the
\* value when it is Ok.
CreationReturns(ctor, r) ==
    /\ natives' = natives \o r.objs
    /\ crCalls' = Append(crCalls, [ctor |-> ctor, res |-> r.res, held |-> r.res = "Ok"])
    /\ UNCHANGED <<nalVars, subVars, ownVars, inspVars, scalingVars, recVars, uploadVars>>

\* Buffer::new(&allocation, &info)
CreateBuffer ==
    /\ Len(crCalls) < MaxCreations
    /\ \E rcCreate \in {SUCCESS} \cup VkErrors, rcBind \in {SUCCESS} \cup VkErrors :
          CreationReturns("Buffer", BufferSharedNew(Len(crCalls) + 1, rcCreate, rcBind))

\* Pipeline::new(&device, &shader)
CreatePipeline ==
    /\ Len(crCalls) < MaxCreations
    /\ \E rcLayout \in {SUCCESS} \cup VkErrors, rcPipelines \in {SUCCESS} \cup VkErrors :
          CreationReturns("Pipeline", PipelineSharedNew(Len(crCalls) + 1, rcLayout, rcPipelines))

\* VideoSession::new(&device, &stream_inspector)
CreateVideoSession ==
    /\ Len(crCalls) < MaxCreations
    /\ \E n \in 0..MaxRequirements :
       \E failAt \in 0..Len(SessionSteps(n)) :
          CreationReturns("VideoSession", VideoSessionSharedNew(Len(crCalls) + 1, n, failAt))

\* The caller drops a value a creation call returned: impl Drop destroys its
\* native objects.
DropCreated ==
    \E c \in DOMAIN crCalls :
        /\ crCalls[c].held
        /\ crCalls' = [crCalls EXCEPT ![c].held = FALSE]
        /\ natives' = [i \in DOMAIN natives |->
                          IF natives[i].call = c /\ natives[i].kind \in DropKinds(crCalls[c].ctor)
                          THEN [natives[i] EXCEPT !.state = "destroyed"]
                          ELSE natives[i]]
        /\ UNCHANGED <<nalVars, subVars, ownVars, inspVars, scalingVars, recVars, uploadVars>>

(***************************************************************************)
(* Buffer::upload and Buffer::download_into for two buffers placed at      *)
(* disjoint offset ranges of one host-visible allocation.                  *)
(***************************************************************************)

\* Size of the allocation in bytes.
AllocationSize == 6

\* Longest slice passed to upload.
MaxData == 3

\* BufferInfo of the two buffers: offset and size.
UpBuffers == {"u1", "u2"}
BufferInfoOf(b) == IF b = "u1" THEN [offset |-> 0, size |-> 2] ELSE [offset |-> 2, size |-> 2]

\* The slices uploaded: &[v; n], as in the upload_download test.
DataBytes == {1, 2}
DataSlices == {[i \in 1..n |-> v] : n \in 0..MaxData, v \in DataBytes}

\* Most upload and download_into calls in one behaviour.
MaxTransfers == 3

\* n: the number of calls made so far.
NoTransfer == [op |-> "-", buf |-> "-", data |-> <<>>, ret |-> "-", n |-> 0]

\* std::ptr::copy_nonoverlapping(data.as_ptr(), mapped_pointer, data.len())
\* with mapped_pointer = map_memory(device_memory, offset, WHOLE_SIZE): byte i
\* of data goes to byte offset + i of the allocation.  Memory offsets are
\* 0-based as in the source, sequence positions are offset + 1.
CopyToMapped(m, offset, data) ==
    [p \in DOMAIN m |->
        IF p - 1 >= offset /\ p - 1 < offset + Len(data) THEN data[p - offset] ELSE m[p]]

\* std::ptr::copy_nonoverlapping(mapped_pointer, target.as_mut_ptr(), len_bytes)
\* with mapped_pointer = map_memory(device_memory, offset, len_bytes)
CopyFromMapped(m, offset, len) == [i \in 1..len |-> m[offset + i]]

\* Two buffers just created on a fresh host-visible allocation.
UploadStart ==
    /\ upMem = [p \in 1..AllocationSize |-> 0]
    /\ upCall = NoTransfer
    /\ upLast = [b \in UpBuffers |-> [data |-> <<>>, ok |-> FALSE]]
    /\ upTarget = <<>>

\* buffer.upload(data): map_memory(..)? returns before anything is written;
\* the result of flush_mapped_memory_ranges is returned after the copy and
\* unmap_memory.
Upload ==
    \E b \in UpBuffers, data \in DataSlices :
        /\ upCall.n < MaxTransfers
        /\ BufferInfoOf(b).offset + Len(data) <= AllocationSize
        /\ \E rcMap \in {SUCCESS, "ERROR_MEMORY_MAP_FAILED"},
              rcFlush \in {SUCCESS, "ERROR_OUT_OF_HOST_MEMORY"} :
              /\ upMem' = IF rcMap = SUCCESS
                          THEN CopyToMapped(upMem, BufferInfoOf(b).offset, data)
                          ELSE upMem
              /\ LET ok == rcMap = SUCCESS /\ rcFlush = SUCCESS IN
                 /\ upCall' = [op |-> "upload", buf |-> b, data |-> data,
                               ret |-> IF ok THEN "Ok" ELSE "Err", n |-> upCall.n + 1]
                 /\ upLast' = [upLast EXCEPT ![b] = [data |-> data, ok |-> ok]]
        /\ UNCHANGED upTarget
        /\ UNCHANGED <<nalVars, subVars, ownVars, inspVars, scalingVars, recVars, createVars>>

\* buffer.download_into(&mut target) with a target as long as the data of
\* the last upload called on the buffer.
DownloadIntoTarget ==
    \E b \in UpBuffers :
        /\ upCall.n < MaxTransfers
        /\ upLast[b].data # <<>>
        /\ \E rcMap \in {SUCCESS, "ERROR_MEMORY_MAP_FAILED"} :
              /\ upTarget' = IF rcMap = SUCCESS
                             THEN CopyFromMapped(upMem, BufferInfoOf(b).offset, Len(upLast[b].data))
                             ELSE [i \in 1..Len(upLast[b].data) |-> 0]
              /\ upCall' = [op |-> "download_into", buf |-> b, data |-> upLast[b].data,
                            ret |-> IF rcMap = SUCCESS THEN "Ok" ELSE "Err", n |-> upCall.n + 1]
        /\ UNCHANGED <<upMem, upLast>>
        /\ UNCHANGED <<nalVars, subVars, ownVars, inspVars, scalingVars, recVars, createVars>>

(***************************************************************************)
(* Specifications                                                          *)
(***************************************************************************)

\* No NalIter in use: an iterator over the empty buffer that is never advanced.
NalUnused == NalConstructed({<<>>})

\* No submission made yet: queues and a command buffer just created, buffers
\* bound to host-visible memory holding zeroes.
SubUnused ==
    /\ pc = "idle"
    /\ prog = <<>>
    /\ todo = <<>>
    /\ cmdbuf = <<>>
    /\ calls = <<>>
    /\ result = ResNone
    /\ fence = "none"
    /\ fenceSignalled = FALSE
    /\ fencesAlive = 0
    /\ gpuCmds = <<>>
    /\ gpuDone = {}
    /\ mem = InitialContent
    /\ nCalls = 0
    /\ queue = "-"
    /\ gpuQueue = <<>>
    /\ lastCall = [ok |-> FALSE, queue |-> "-", stale |-> FALSE]
    /\ downloaded = NoDownload

\* A device just created, its handle held by the caller, nothing created from it.
OwnUnused ==
    /\ native = [n \in Resources |-> IF n = Dev THEN "alive" ELSE "none"]
    /\ strong = [n \in Nodes |-> IF n = Dev THEN 1 ELSE 0]
    /\ handle = [n \in Nodes |-> n = Dev]
    /\ fields = [n \in Nodes |-> <<>>]
    /\ uses = [n \in Resources |-> {}]
    /\ log = <<>>
    /\ ret = RetNone

\* scaling_list not in use.
ScalingUnused == ScalingCalled({<<>>}, {<<>>})

\* No run_in call under observation.
RecUnused == RunInCalled({NoOp})

\* No creation call made.
CreateUnused ==
    /\ natives = <<>>
    /\ crCalls = <<>>

\* upload and download_into not in use.
UploadUnused ==
    /\ upMem = <<>>
    /\ upCall = NoTransfer
    /\ upLast = <<>>
    /\ upTarget = <<>>

LifeUnused == CreateUnused /\ UploadUnused

ExtUnused == ScalingUnused /\ RecUnused /\ LifeUnused

\* An inspector just created: H264StreamInspector::new()
InspUnused ==
    /\ h264_context = EmptyContext
    /\ lastParsed = EmptyContext
    /\ feedRet = FeedNone
    /\ panicked = FALSE
    /\ rwPc = "idle"
    /\ heap = {}
    /\ vsp = NoVsp

NalInit == NalConstructed(Streams) /\ SubUnused /\ OwnUnused /\ InspUnused /\ ExtUnused

NextNal == NalNext

SpecNal == NalInit /\ [][NextNal]_vars

SubInit == NalUnused /\ SubUnused /\ OwnUnused /\ InspUnused /\ ExtUnused

NextSub ==
    \/ BuildAndSubmit
    \/ CreateFence
    \/ ResetCommandBuffer
    \/ BeginCommandBuffer
    \/ RunOp
    \/ ClosureReturns
    \/ EndCommandBuffer
    \/ QueueSubmit
    \/ WaitForFences
    \/ DestroyFence
    \/ QueueWaitIdle
    \/ GpuExecute
    \/ GpuSignalFence
    \/ DownloadInto

SpecSub == SubInit /\ [][NextSub]_vars

\* Action A taken along the path on which build_and_submit goes on or returns Ok.
Proceeds(A) == A /\ (pc' # "idle" \/ result' = ResOk)

\* Every driver call returns: a call that can return SUCCESS does return (a
\* wait once what it waits for has happened), and may return an error at any
\* time instead.  The closure runs to its end.  Every submitted command buffer
\* completes: the device executes what it may execute and signals the fence.
SubFairness ==
    /\ WF_vars(Proceeds(CreateFence))
    /\ WF_vars(Proceeds(ResetCommandBuffer))
    /\ WF_vars(Proceeds(BeginCommandBuffer))
    /\ WF_vars(RunOp)
    /\ WF_vars(ClosureReturns)
    /\ WF_vars(Proceeds(EndCommandBuffer))
    /\ WF_vars(Proceeds(QueueSubmit))
    /\ WF_vars(Proceeds(WaitForFences))
    /\ WF_vars(DestroyFence)
    /\ WF_vars(Proceeds(QueueWaitIdle))
    /\ WF_vars(GpuExecute)
    /\ WF_vars(GpuSignalFence)

SpecSubFair == SubInit /\ [][NextSub]_vars /\ SubFairness

Init == NalUnused /\ SubUnused /\ OwnUnused /\ InspUnused /\ ExtUnused

Next ==
    \/ AllocationNew
    \/ BufferNew
    \/ ImageNew
    \/ ImageBind
    \/ ParametersNew
    \/ ShaderNew
    \/ PipelineNew
    \/ FillBufferNew
    \/ CopyImage2BufferNew
    \/ Release
    \/ OpDrop

Spec == Init /\ [][Next]_vars

InspInit == NalUnused /\ SubUnused /\ OwnUnused /\ InspUnused /\ ExtUnused

NextInsp ==
    \/ FeedNal
    \/ Sps1Collect
    \/ Sps2Collect
    \/ Sps3Collect
    \/ Pps1Collect
    \/ Pps2Collect
    \/ CallContinuation
    \/ ContinuationReturns
    \/ VideoSessionParametersNew

SpecInsp == InspInit /\ [][NextInsp]_vars

ScalingInit ==
    /\ NalUnused /\ SubUnused /\ OwnUnused /\ InspUnused /\ RecUnused /\ LifeUnused
    /\ ScalingCalled(ScalingSlices, ScalingSlices)

NextScaling == ScalingListReturns

SpecScaling == ScalingInit /\ [][NextScaling]_vars

RecInit ==
    /\ NalUnused /\ SubUnused /\ OwnUnused /\ InspUnused /\ ScalingUnused /\ LifeUnused
    /\ RunInCalled(RecordedOps)

NextRec == RunInReturns

SpecRec == RecInit /\ [][NextRec]_vars

CreateInit ==
    /\ NalUnused /\ SubUnused /\ OwnUnused /\ InspUnused
    /\ ScalingUnused /\ RecUnused /\ CreateUnused /\ UploadUnused

NextCreate ==
    \/ CreateBuffer
    \/ CreatePipeline
    \/ CreateVideoSession
    \/ DropCreated

SpecCreate == CreateInit /\ [][NextCreate]_vars

UploadInit ==
    /\ NalUnused /\ SubUnused /\ OwnUnused /\ InspUnused
    /\ ScalingUnused /\ RecUnused /\ CreateUnused /\ UploadStart

NextUpload ==
    \/ Upload
    \/ DownloadIntoTarget

SpecUpload == UploadInit /\ [][NextUpload]_vars

(***************************************************************************)
(* Properties                                                              *)
(***************************************************************************)

(***************************************************************************)
(* Ownership properties                                                    *)
(***************************************************************************)

Created(n) == native[n] # "none"

\* Position of the first entry <<c, n>> in the log, 0 when there is none.
LogPos(c, n) ==
    IF \E i \in 1..Len(log) : log[i] = <<c, n>>
    THEN CHOOSE i \in 1..Len(log) :
            log[i] = <<c, n>> /\ \A j \in 1..(i - 1) : log[j] # <<c, n>>
    ELSE 0

LogCount(c, n) == Cardinality({i \in 1..Len(log) : log[i] = <<c, n>>})

\* The values some handle still keeps: what is reachable from the handles the
\* caller holds, following the Arc fields.
RECURSIVE ReachFrom(_)
ReachFrom(S) ==
    LET T == S \cup UNION {{fields[n][i] : i \in DOMAIN fields[n]} : n \in S} IN
    IF T = S THEN S ELSE ReachFrom(T)

Kept == ReachFrom({n \in Nodes : handle[n]})

\* C1: while a Buffer handle is held the device's native object is alive,
\* whether or not the Device and Allocation handles have been released, and
\* destroy_device is only issued after destroy_buffer of every buffer created.
C1_DeviceOutlivesBuffer ==
    /\ \A b \in Buffers : handle[b] => native[Dev] = "alive"
    /\ LogPos("destroy_device", Dev) > 0 =>
          \A b \in Buffers : Created(b) =>
              /\ LogPos("destroy_buffer", b) > 0
              /\ LogPos("destroy_buffer", b) < LogPos("destroy_device", Dev)

\* Device and Allocation handles released, the Buffer handle still held.
C1_Witness ==
    \E b \in Buffers :
        /\ handle[b]
        /\ ~handle[Dev]
        /\ ~handle[fields[b][2]]
        /\ native[Dev] = "alive"
        /\ native[b] = "alive"

C4_Original ==
    (ret.op = "bind" /\ ret.prev # <<>>) =>
        /\ ret.res = "ImageAlreadyBound"
        /\ LogCount("bind_image_memory", ret.img) = 1
        /\ native[ret.img] = "alive"
        /\ BoundTo(fields[ret.img]) = ret.prev
        /\ native[ret.prev[1]] = "alive"

(***************************************************************************)
(* Submission properties                                                   *)
(***************************************************************************)

CallNames == [i \in DOMAIN calls |-> calls[i].call]

IsNotCreateFence(c) == c.call # "create_fence"
IsRunIn(c) == c.call = "run_in"

\* The calls of a successful build_and_submit over closure f, fence creation aside.
ProtocolOrder(f) ==
    <<"reset_command_buffer", "begin_command_buffer">>
    \o [i \in DOMAIN f |-> "run_in"]
    \o <<"end_command_buffer", "queue_submit", "wait_for_fences",
         "destroy_fence", "queue_wait_idle">>

IndexOf(name) ==
    IF \E i \in DOMAIN calls : calls[i].call = name
    THEN CHOOSE i \in DOMAIN calls : calls[i].call = name
    ELSE 0

\* The state of the submission protocol.
Phase ==
    CASE pc \in {"create_fence", "reset", "begin"} -> "Idle"
      [] pc \in {"callback", "end", "submit"} -> "Recording"
      [] pc \in {"wait_fence", "destroy_fence", "wait_idle"} -> "Submitted"
      [] OTHER -> IF result.tag = "Ok" THEN "Complete"
                  ELSE IF result.tag = "Err" THEN "Aborted" ELSE "Idle"

PhaseStep ==
    \/ Phase' = Phase
    \/ <<Phase, Phase'>> \in {<<"Idle", "Recording">>, <<"Recording", "Submitted">>,
                              <<"Submitted", "Complete">>, <<"Complete", "Idle">>,
                              <<"Aborted", "Idle">>}
    \/ Phase' = "Aborted"

C5_Order ==
    result.tag = "Ok" =>
        LET cs == SelectSeq(calls, IsNotCreateFence) IN
        /\ [i \in DOMAIN cs |-> cs[i].call] = ProtocolOrder(prog)
        /\ LET rs == SelectSeq(calls, IsRunIn) IN
              [i \in DOMAIN rs |-> rs[i].op] = prog
        /\ Cardinality({i \in DOMAIN calls : calls[i].call = "create_fence"}) = 1
        /\ IndexOf("create_fence") < IndexOf("queue_submit")

\* C5: a successful build_and_submit goes Idle, Recording, Submitted, Complete
\* without skipping or revisiting a state, and has issued reset, begin, the
\* closure's run_in calls in the closure's order, end, queue_submit with the
\* fence created in this call, wait_for_fences, destroy_fence, queue_wait_idle,
\* in this order.
C5_ProtocolOrder == [](C5_Order) /\ [][PhaseStep]_vars

\* A call that filled b1, copied it to b2 and returned Ok.
C5_Witness ==
    /\ result.tag = "Ok"
    /\ \E v \in FillValues : prog = <<OpFill("b1", v), OpCopy("b1", "b2")>>

RecordingCalls == {"create_fence", "reset_command_buffer", "begin_command_buffer",
                   "run_in", "end_command_buffer"}

\* C6: a build_and_submit that returned an error made no call after the one
\* that failed, submitted nothing if that call belongs to recording, and
\* returns the driver's result code as Vulkan(code), or the error the
\* operation returned.
C6_FailureAborts ==
    result.tag = "Err" =>
        LET k == Len(calls) IN
        /\ k >= 1
        /\ calls[k].rc # SUCCESS
        /\ \A i \in 1..(k - 1) : calls[i].rc = SUCCESS
        /\ IF calls[k].call = "run_in"
           THEN result = calls[k].op.err
           ELSE result = [tag |-> "Err", variant |-> "Vulkan", code |-> calls[k].rc]
        /\ calls[k].call \in RecordingCalls => IndexOf("queue_submit") = 0

\* end_command_buffer failed after commands were recorded.
C6_Witness ==
    /\ result.tag = "Err"
    /\ calls[Len(calls)].call = "end_command_buffer"
    /\ result.code = "ERROR_OUT_OF_HOST_MEMORY"
    /\ cmdbuf # <<>>

\* C7: when build_and_submit has returned Ok the fence of the submission has
\* signalled and the queue is idle: no submitted command is still to execute.
C7_OkOnlyWhenComplete ==
    result.tag = "Ok" =>
        /\ fenceSignalled
        /\ QueueIdle
        /\ Len(gpuCmds) >= Len(cmdbuf)
        /\ SubSeq(gpuCmds, Len(gpuCmds) - Len(cmdbuf) + 1, Len(gpuCmds)) = cmdbuf

\* Ok after the device executed two commands.
C7_Witness ==
    /\ result.tag = "Ok"
    /\ Cardinality(GpuWork) >= 2
    /\ pc = "idle"

RECURSIVE Recorded(_)
\* The commands of the operations in f, in the order of f.
Recorded(f) == IF f = <<>> THEN <<>> ELSE RunIn(Head(f)) \o Recorded(Tail(f))

\* C8 as claimed: the commands are in the command buffer in the order of the
\* run_in calls, and execute in that order: a fill of a buffer followed by a
\* copy of that buffer leaves the fill pattern in the destination.
C8_Original ==
    /\ pc = "callback" =>
          cmdbuf = Recorded(SubSeq(prog, 1, Len(prog) - Len(todo)))
    /\ \A x \in OpBuffers, y \in OpBuffers, v \in FillValues :
          (x # y /\ result.tag = "Ok" /\ prog = <<OpFill(x, v), OpCopy(x, y)>>) => mem[y] = v

(***************************************************************************)
(* Inspector properties                                                    *)
(***************************************************************************)

\* C12 as claimed: feeding a sound PPS NAL whose SPS is not in the context
\* returns a missing-reference error value to the caller; with the SPS in the
\* context (fed before) the same PPS NAL is accepted.
C12_Original ==
    (feedRet.nal.type = "PicParameterSet" /\ feedRet.nal.fault = "none") =>
        IF h264_context.sps[feedRet.nal.rec.seq_parameter_set_id] = None
        THEN feedRet.outcome = "Err" /\ feedRet.err = "BadSeqParamSetId"
        ELSE feedRet.outcome = "Unit" /\ feedRet.err = "-"

\* The error kind of each failure cause.
ErrorKinds == {"NalHeaderError", "SpsError", "PpsError", "BadSeqParamSetId"}

\* C13 as claimed: a feed_nal call whose NAL does not parse reports an error
\* (of the kind of its cause) to the caller, and leaves the context as it was
\* before the call.
C13_Original ==
    /\ [](feedRet.err # "-" => (feedRet.outcome = "Err" /\ feedRet.err \in ErrorKinds))
    /\ [][(feedRet' # feedRet /\ feedRet'.err # "-") => h264_context' = h264_context]_vars

\* C14 as claimed: the context maps every SPS id and every PPS id to the
\* record of the last NAL with that id that parsed, and NALs that are neither
\* SPS nor PPS leave it unchanged.
C14_Original ==
    /\ [](h264_context = lastParsed)
    /\ [][feedRet'.nal.type \notin {"SeqParameterSet", "PicParameterSet"}
            => h264_context' = h264_context]_vars

Memory == heap \cup ContextObjs

Live(loc) == \E o \in Memory : o.loc = loc

ObjAt(loc) == CHOOSE o \in Memory : o.loc = loc

RECURSIVE ReachLocs(_)
\* The locations reachable from the locations in L through the pointers stored.
ReachLocs(L) ==
    LET T == L \cup {p.target : p \in UNION {o.ptrs : o \in {m \in Memory : m.loc \in L}}} IN
    IF T = L THEN L ELSE ReachLocs(T)

CreateInfoLoc == <<"video_decode_h264session_parameters_create_info", 1>>

PointersValid ==
    /\ Live(CreateInfoLoc)
    /\ \A l \in ReachLocs({CreateInfoLoc}) :
          /\ Cardinality({o \in Memory : o.loc = l}) = 1
          /\ \A p \in ObjAt(l).ptrs :
                /\ Live(p.target)
                /\ ObjAt(l).from # None => ObjAt(p.target).from = ObjAt(l).from
    /\ {ObjAt(p.target).from : p \in ObjAt(<<"create_info", 1>>).ptrs}
          = {ContextSps[k] : k \in DOMAIN ContextSps} \cup {ContextPps[k] : k \in DOMAIN ContextPps}

\* C15: while the continuation of run_with_create_info runs, every non-null
\* pointer reachable from the create-info refers to a record that is in place
\* and was built from the same parameter set, and records are released only
\* in the step in which the continuation returns.
C15_PointersValidInContinuation ==
    /\ [](rwPc = "in_f" => PointersValid)
    /\ [][heap \subseteq heap' \/ rwPc = "in_f"]_vars

\* The continuation runs over two SPS, one with VUI, HRD and scaling lists.
C15_Witness ==
    /\ rwPc = "in_f"
    /\ Len(ContextSps) = 2
    /\ \E k \in DOMAIN ContextSps : ContextSps[k].vui = "hrd" /\ ContextSps[k].scaling
    /\ \E o \in heap : \E p \in o.ptrs : p.field = "pHrdParameters"

ContextRecords(map) == {map[i] : i \in DOMAIN map} \ {None}

\* C16 as claimed: the SPS and PPS records handed to the driver at creation
\* are the records of the context at that time, one per SPS and per PPS, and
\* the created object does not change afterwards.
C16_Original ==
    /\ [](vsp.created =>
            /\ vsp.sps = ContextRecords(vsp.at.sps)
            /\ vsp.pps = ContextRecords(vsp.at.pps))
    /\ [][vsp.created => vsp' = vsp]_vars

(***************************************************************************)
(* Segmenter properties                                                    *)
(***************************************************************************)

\* The bytes of a returned unit: &stream[start..end]
UnitBytes(u) == SubSeq(stream, u.start + 1, u.end)

\* A start code somewhere in s: two zero bytes directly followed by a 1 byte.
HasStartCode(s) ==
    \E i \in 1..(Len(s) - 2) : s[i] = 0 /\ s[i + 1] = 0 /\ s[i + 2] = 1

StartsWithStartCode(s) ==
    Len(s) >= 3 /\ s[1] = 0 /\ s[2] = 0 /\ s[3] = 1

\* C9: a buffer without a start code (the empty buffer included) yields no
\* unit: the iterator is constructed at End, and the first call of next()
\* returns None.
C9_NoStartCodeYieldsNothing ==
    ~HasStartCode(stream) =>
        /\ nalState = StEnd
        /\ units = <<>>
        /\ nalRet \in {"NotCalled", "None"}

\* A non-empty buffer with zeros and ones but no start code, after next().
C9_Witness ==
    /\ ~HasStartCode(stream)
    /\ \E i \in 1..(Len(stream) - 1) : stream[i] = 0 /\ stream[i + 1] = 1
    /\ nalRet = "None"
    /\ units = <<>>

\* A buffer of the form 00 00 01 <payload> 00 00 01.
IsFramed(s) ==
    /\ Len(s) >= 6
    /\ StartsWithStartCode(s)
    /\ StartsWithStartCode(SubSeq(s, Len(s) - 2, Len(s)))

Payload(s) == SubSeq(s, 4, Len(s) - 3)

\* The iteration has run to its end: next() has returned None.
NalExhausted == nalRet = "None"

\* Exactly two units: start code plus payload, then the trailing start code.
TwoFramedUnits ==
    /\ Len(units) = 2
    /\ units[1] = [start |-> 0, end |-> Len(stream) - 3]
    /\ units[2] = [start |-> Len(stream) - 3, end |-> Len(stream)]
    /\ \A i \in 1..2 : StartsWithStartCode(UnitBytes(units[i]))

\* C10 as claimed: every buffer 00 00 01 <payload> 00 00 01 yields exactly
\* two units, each beginning with its own start code.
C10_Original ==
    (IsFramed(stream) /\ NalExhausted) => TwoFramedUnits

\* C10 amended: every buffer 00 00 01 <payload> 00 00 01 whose payload contains
\* no start code yields exactly two units, the start code plus the payload and
\* the trailing start code alone; each begins with its own start code.
C10_FramedPayloadTwoUnits ==
    (IsFramed(stream) /\ ~HasStartCode(Payload(stream)) /\ NalExhausted)
        => TwoFramedUnits

\* A framed buffer with a non-empty payload ending in a zero byte, iterated to the end.
C10_Witness ==
    /\ IsFramed(stream)
    /\ ~HasStartCode(Payload(stream))
    /\ Len(Payload(stream)) >= 2
    /\ Payload(stream)[Len(Payload(stream))] = 0
    /\ NalExhausted
    /\ Len(units) = 2

RECURSIVE ConcatUnits(_)
\* The bytes of the units in us, one after the other.
ConcatUnits(us) ==
    IF us = <<>> THEN <<>> ELSE UnitBytes(Head(us)) \o ConcatUnits(Tail(us))

\* C11: the units yielded are contiguous sub-slices of the buffer in stream
\* order: each begins with 00 00 01 (it starts two bytes before the 1 byte of
\* its start code) and ends where the next unit starts, the first starts at
\* the first start code of the buffer, and once the iteration is over the last
\* unit ends at the end of the buffer and the units together are the buffer
\* from the first unit's start to its end.
C11_UnitsPartitionStream ==
    /\ \A i \in DOMAIN units :
          /\ units[i].start < units[i].end
          /\ units[i].end <= Len(stream)
          /\ StartsWithStartCode(UnitBytes(units[i]))
    /\ \A i \in 1..(Len(units) - 1) : units[i].end = units[i + 1].start
    /\ units # <<>> => ~HasStartCode(SubSeq(stream, 1, units[1].start + 2))
    /\ NalExhausted =>
          /\ HasStartCode(stream) => units # <<>>
          /\ units # <<>> =>
                /\ units[Len(units)].end = Len(stream)
                /\ ConcatUnits(units) = SubSeq(stream, units[1].start + 1, Len(stream))

\* Two units after skipped bytes and an excess zero, iterated to the end.
C11_Witness ==
    /\ NalExhausted
    /\ Len(units) = 2
    /\ units[1].start >= 2
    /\ stream[units[1].start] = 0
    /\ units[1].end - units[1].start >= 4


(***************************************************************************)
(* Fill, download and the order of submissions.                            *)
(***************************************************************************)

\* Byte i (0..3) of the 32-bit value v: its bits 8i..8i+7.
BitsOf(v, i) == (v \div (2 ^ (8 * i))) % 256

\* C17: once a submission that fills buffer b with the 32-bit value v has
\* returned Ok, a download of b yields, at every offset 4k+i, the bits 8i..8i+7
\* of v; for 0x11223344 the buffer starts 0x44, 0x33, 0x22, 0x11.
C17_Original ==
    \A b \in OpBuffers, v \in FillValues :
        (result = ResOk /\ prog = <<OpFill(b, v)>> /\ downloaded.buf = b) =>
            /\ \A k \in 0..((DownloadLen \div 4) - 1), i \in 0..3 :
                  downloaded.data[4 * k + i + 1] = BitsOf(v, i)
            /\ v = 287454020 => SubSeq(downloaded.data, 1, 4) = <<68, 51, 34, 17>>


\* C18: every build_and_submit resets the command buffer before it records, so
\* recording starts on an empty command buffer and the commands a queue_submit
\* hands to the device are exactly those the closure of the same call recorded:
\* none of the commands an earlier, failed call left in the command buffer.
C18_ResetBeforeRecording ==
    /\ [](pc = "begin" => cmdbuf = <<>>)
    /\ [][gpuCmds' # gpuCmds =>
              gpuCmds' \in {Recorded(prog), gpuCmds \o Recorded(prog)}]_vars

\* The call before failed while recording and left commands behind; the
\* current call has recorded its own commands and submitted them.
C18_Witness ==
    /\ lastCall.stale
    /\ pc = "wait_fence"
    /\ cmdbuf # <<>>
    /\ gpuCmds = cmdbuf


\* C19: if every driver call returns and the device completes what was
\* submitted, every build_and_submit returns; and after queue_submit it returns
\* either an error or Ok with the fence signalled and the queue idle.
C19_SubmitReturns ==
    /\ [](pc # "idle" => <>(pc = "idle"))
    /\ [][(pc \in {"wait_fence", "destroy_fence", "wait_idle"} /\ pc' = "idle") =>
              \/ result'.tag = "Err"
              \/ result' = ResOk /\ fenceSignalled' /\ QueueIdle']_vars

\* A call has returned Ok after the device executed the commands it submitted.
C19_Witness ==
    /\ pc = "idle"
    /\ result = ResOk
    /\ cmdbuf # <<>>
    /\ fence = "destroyed"
    /\ GpuWork # {}
    /\ DeviceIdle


\* The commands the call before the current one submitted to its queue are
\* complete.
LastSubmissionComplete ==
    \A i \in GpuWork : gpuQueue[i] = lastCall.queue => i \in gpuDone

\* build_and_submit is running on a queue other than the one the call before
\* it was made on.
OnSecondQueue == pc # "idle" /\ lastCall.queue \notin {"-", queue}

Built(name) == {o \in heap : o.loc[1] = name}

\* Vector name holds one record for every parameter set in recs.
AllBuilt(name, recs) == {o.loc[2] : o \in Built(name)} = DOMAIN recs

\* The records some record built so far points into.
Captured == {o \in Memory : \E h \in heap : \E q \in h.ptrs : q.target = o.loc}

\* C21: run_with_create_info builds level by level: a level-2 SPS record exists
\* only when all level-1 records exist, a level-3 record only when all level-2
\* records exist, a level-2 PPS record only when all level-1 PPS records exist;
\* every pointer a record holds is into a record already in place; and a record
\* something points into stays as it is until the continuation returns.
C21_LevelByLevel ==
    /\ [](/\ Built("sps2") # {} => AllBuilt("sps1", ContextSps)
          /\ Built("sps3") # {} => AllBuilt("sps2", ContextSps)
          /\ Built("pps2") # {} => AllBuilt("pps1", ContextPps)
          /\ \A h \in heap : \A q \in h.ptrs : Live(q.target))
    /\ [][rwPc # "in_f" => \A o \in Captured : o \in heap' \cup ContextObjs']_vars

\* All three SPS levels are built for two parameter sets, with pointers from
\* level 2 into level 1 and from level 3 into level 2.
C21_Witness ==
    /\ rwPc = "pps1"
    /\ Len(ContextSps) = 2
    /\ AllBuilt("sps3", ContextSps)
    /\ \E o \in Built("sps2") : \E q \in o.ptrs : q.target[1] = "sps1"
    /\ \E o \in Built("sps3") : \E q \in o.ptrs : q.target[1] = "sps2"


(***************************************************************************)
(* Scaling-list masks                                                      *)
(***************************************************************************)

\* Entry i (0..11, the 4x4 lists before the 8x8 lists) of the parsed lists,
\* "Absent" where the slice has no such entry.
ParsedList(i) ==
    LET lists == IF i < SCALING_LIST4X4_NUM_LISTS THEN scalingIn.l4 ELSE scalingIn.l8
        k == IF i < SCALING_LIST4X4_NUM_LISTS THEN i ELSE i - SCALING_LIST4X4_NUM_LISTS
    IN IF k < Len(lists) THEN lists[k + 1] ELSE "Absent"

\* C22 as claimed: in the record scaling_list returns, bit i of
\* scaling_list_present_mask is set exactly when list i is present in the
\* parameter set, and bit i of use_default_scaling_matrix_mask exactly when
\* list i is marked use-default.
C22_Original ==
    scalingOut # NoScalingLists =>
        \A i \in 0..(SCALING_LIST4X4_NUM_LISTS + SCALING_LIST8X8_NUM_LISTS - 1) :
            /\ Bit(scalingOut.scaling_list_present_mask, i) = 1
                  <=> ParsedList(i) \in {"UseDefault", "List"}
            /\ Bit(scalingOut.use_default_scaling_matrix_mask, i) = 1
                  <=> ParsedList(i) = "UseDefault"


(***************************************************************************)
(* What the operations record                                              *)
(***************************************************************************)

CmdNames(cs) == [i \in DOMAIN cs |-> cs[i].cmd]

Range(f) == {f[i] : i \in DOMAIN f}

\* The image layouts specific to video decode.
VideoDecodeLayouts == {"VIDEO_DECODE_DST_KHR", "VIDEO_DECODE_SRC_KHR", "VIDEO_DECODE_DPB_KHR"}

\* C23: run_in of the decode operation appends exactly: a barrier that moves
\* the target image into a video-decode layout and opens the source buffer to
\* decode reads, begin, control, decode and end video coding, and a barrier that
\* moves the target image out of that same layout and closes the decode reads
\* of the source buffer.
C23_DecodeSequence ==
    (recRet = "Ok" /\ recOp.op = "Decode") =>
        /\ CmdNames(recCmds) =
              <<"pipeline_barrier", "begin_video_coding", "control_video_coding",
                "decode_video", "end_video_coding", "pipeline_barrier">>
        /\ \E acq \in Range(recCmds[1].images), rel \in Range(recCmds[6].images) :
              /\ acq.image = recOp.target
              /\ rel.image = recOp.target
              /\ acq.new_layout \in VideoDecodeLayouts
              /\ rel.old_layout = acq.new_layout
              /\ rel.new_layout \notin VideoDecodeLayouts
        /\ \E acq \in Range(recCmds[1].buffers), rel \in Range(recCmds[6].buffers) :
              /\ acq.buffer = recOp.a
              /\ rel.buffer = recOp.a
              /\ acq.dst_access = "VIDEO_DECODE_READ_KHR"
              /\ rel.src_access = "VIDEO_DECODE_READ_KHR"

\* A decode whose target and reference images differ has been recorded.
C23_Witness ==
    /\ recRet = "Ok"
    /\ recOp.op = "Decode"
    /\ recOp.target # recOp.ref
    /\ Len(recCmds) = 6


\* Command c is a pipeline barrier on buffer buf, as FillBuffer records it.
IsBarrierOn(c, buf) == c.cmd = "pipeline_barrier" /\ c.a = buf

\* C24 as claimed: the fill operation records a barrier on the filled buffer
\* before the fill command and a barrier on it after the fill command.
C24_Original ==
    (recRet = "Ok" /\ recOp.op = "Fill") =>
        \E j \in DOMAIN recCmds :
            /\ recCmds[j].cmd = "fill_buffer"
            /\ recCmds[j].a = recOp.a
            /\ \E i \in 1..(j - 1) : IsBarrierOn(recCmds[i], recOp.a)
            /\ \E k \in (j + 1)..Len(recCmds) : IsBarrierOn(recCmds[k], recOp.a)

\* C25 as claimed: the buffer-to-buffer copy records, with the copy command, a
\* barrier on the source buffer for read access and a barrier on the
\* destination buffer for write access.
C25_Original ==
    (recRet = "Ok" /\ recOp.op = "Copy") =>
        /\ \E j \in DOMAIN recCmds :
              recCmds[j].cmd = "copy_buffer" /\ recCmds[j].a = recOp.a /\ recCmds[j].b = recOp.b
        /\ \E i \in DOMAIN recCmds :
              IsBarrierOn(recCmds[i], recOp.a) /\ recCmds[i].dst = "TRANSFER_READ"
        /\ \E i \in DOMAIN recCmds :
              IsBarrierOn(recCmds[i], recOp.b) /\ recCmds[i].dst = "TRANSFER_WRITE"

\* The resources the barriers of command c name.
BarrierResources(c) ==
    IF c.cmd = "pipeline_barrier"
    THEN {x.buffer : x \in Range(c.buffers)} \cup {x.image : x \in Range(c.images)}
    ELSE {}

\* C26 as claimed: the compute operation records, for every buffer and every
\* image view of its parameter tuple, a barrier on that resource before the
\* dispatch and a barrier on it after the dispatch, and writes parameter i to
\* descriptor binding i.
C26_Original ==
    (recRet = "Ok" /\ recOp.op = "Compute") =>
        /\ \E j \in DOMAIN recCmds :
              /\ recCmds[j].cmd = "dispatch"
              /\ \A n \in DOMAIN recOp.params :
                    /\ \E i \in 1..(j - 1) : recOp.params[n].res \in BarrierResources(recCmds[i])
                    /\ \E k \in (j + 1)..Len(recCmds) :
                          recOp.params[n].res \in BarrierResources(recCmds[k])
        /\ DOMAIN recBindings = 0..(Len(recOp.params) - 1)
        /\ \A n \in DOMAIN recOp.params : recBindings[n - 1] = recOp.params[n]

\* C27: whenever build_and_submit is not running (it has not been called or
\* has returned, with Ok or with an error), no fence it created is alive.
C27_Original ==
    pc = "idle" => fencesAlive = 0

(***************************************************************************)
(* Native objects of failed creation calls; memory of a video session      *)
(***************************************************************************)

\* C28: a creation call that returned an error has left none of the native
\* objects it created alive.
C28_Original ==
    \A c \in DOMAIN crCalls :
        crCalls[c].res = "Err" =>
            \A i \in DOMAIN natives : natives[i].call = c => natives[i].state # "alive"

\* C29: while a native video session is alive, every memory object bound to
\* it is alive.
C29_Original ==
    \A i \in DOMAIN natives, j \in DOMAIN natives :
        (/\ natives[i].kind = "video_session"
         /\ natives[i].state = "alive"
         /\ natives[j].kind = "memory"
         /\ natives[j].call = natives[i].call
         /\ natives[j].bound) => natives[j].state = "alive"

(***************************************************************************)
(* Upload and download of buffers sharing an allocation                    *)
(***************************************************************************)

\* Byte offset p of the allocation lies in the range of buffer b.
InRange(b, p) == p >= BufferInfoOf(b).offset /\ p < BufferInfoOf(b).offset + BufferInfoOf(b).size

\* C30: an upload changes no byte outside the range of the buffer it is
\* called on, whatever the length of the data, and a download_into that
\* returns Ok yields the data of the last upload to its buffer when that
\* upload returned Ok.
C30_Original ==
    /\ [][upCall'.op = "upload" =>
             \A p \in 0..(AllocationSize - 1) :
                 ~InRange(upCall'.buf, p) => upMem'[p + 1] = upMem[p + 1]]_vars
    /\ []((upCall.op = "download_into" /\ upCall.ret = "Ok" /\ upLast[upCall.buf].ok)
              => upTarget = upLast[upCall.buf].data)

====
